---- MODULE Spec2Model ----
(***************************************************************************)
(* A model of the data-preparation scripts under src/scripts.              *)
(*                                                                         *)
(* Python values are tagged records [t, v]: None, str (a sequence of       *)
(* one-character strings), int and list.  A dict is a function from key    *)
(* names to values, so that "key in d" is a test on its DOMAIN.            *)
(***************************************************************************)
EXTENDS Integers, Sequences, FiniteSets, TLC

VARIABLES
    script,                      \* which script's main() is running
    pc,                          \* position in that script
    input,                       \* rows csv.DictReader yields from the input file
    real_questions_by_category,  \* dict category -> list of kept rows
    sample_count,                \* rows classified as placeholders
    cat_idx,                     \* index into categories of the loop in main
    questions_to_use,            \* the current category's list after the quota step
    all_questions,               \* rows formatted so far
    uuid_next,                   \* number of uuid4() identifiers handed out
    outfile,                     \* what has been written to the output file
    stdout,                      \* lines printed
    arg,                         \* argument(s) of the pure function under test
    result,                      \* its result
    row_idx,                     \* index of the next row in a row loop of an SQL script
    sql_rows,                    \* value tuples / INSERT statements built so far
    exit_code,                   \* exit status of the process, None while it runs
    handles                      \* file objects of the lectures importer and sys.stdout

vars == <<script, pc, input, real_questions_by_category, sample_count, cat_idx,
          questions_to_use, all_questions, uuid_next, outfile, stdout, arg, result,
          row_idx, sql_rows, exit_code, handles>>

----------------------------------------------------------------------------
(* Python values *)

NoneV == [t |-> "none", v |-> <<>>]
Str(s) == [t |-> "str", v |-> s]
IntV(n) == [t |-> "int", v |-> n]
ListV(l) == [t |-> "list", v |-> l]

\* no file object made yet, sys.stdout is the console
NoHandles ==
    [output |-> "unopened", lectures |-> "unopened", recitations |-> "unopened",
     sys_stdout |-> "console"]

IsStr(x) == x.t = "str"
IsList(x) == x.t = "list"
IsNone(x) == x.t = "none"

\* d.get(k, default)
Get(d, k, default) == IF k \in DOMAIN d THEN d[k] ELSE default

\* d[k] = val on a dict
DictSet(d, k, val) == [x \in (DOMAIN d) \cup {k} |-> IF x = k THEN val ELSE d[x]]

Min(a, b) == IF a < b THEN a ELSE b
Max(a, b) == IF a > b THEN a ELSE b

\* l[:n] for n >= 0
Take(l, n) == SubSeq(l, 1, Min(n, Len(l)))

----------------------------------------------------------------------------
(* Strings *)

Digits == <<"0", "1", "2", "3", "4", "5", "6", "7", "8", "9">>

UpperLetters == <<"A", "B", "C", "D", "E", "F", "G", "H", "I", "J", "K", "L", "M",
                  "N", "O", "P", "Q", "R", "S", "T", "U", "V", "W", "X", "Y", "Z">>
LowerLetters == <<"a", "b", "c", "d", "e", "f", "g", "h", "i", "j", "k", "l", "m",
                  "n", "o", "p", "q", "r", "s", "t", "u", "v", "w", "x", "y", "z">>

\* the lower-case letter of every upper-case letter
LowerMap ==
    [c \in {UpperLetters[i] : i \in 1..Len(UpperLetters)} |->
        LowerLetters[CHOOSE i \in 1..Len(UpperLetters) : UpperLetters[i] = c]]

\* str.lower() on one character
LowerChar(c) == IF c \in DOMAIN LowerMap THEN LowerMap[c] ELSE c

\* str.lower()
Lower(s) == [i \in 1..Len(s) |-> LowerChar(s[i])]

\* sub in s
Contains(s, sub) ==
    \E i \in 0..(Len(s) - Len(sub)) : SubSeq(s, i + 1, i + Len(sub)) = sub

\* str(n) for an int n >= 0
RECURSIVE StrOfNat(_)
StrOfNat(n) ==
    IF n < 10 THEN <<Digits[n + 1]>>
    ELSE StrOfNat(n \div 10) \o <<Digits[(n % 10) + 1]>>

\* f'{n:03d}'
Pad3(n) ==
    LET s == StrOfNat(n)
    IN  IF Len(s) = 1 THEN <<"0", "0">> \o s
        ELSE IF Len(s) = 2 THEN <<"0">> \o s
        ELSE s

\* str(x) of a Python value that is None, a str or a non-negative int
PyStr(x) ==
    IF x.t = "str" THEN x.v
    ELSE IF x.t = "int" THEN StrOfNat(x.v)
    ELSE <<"N", "o", "n", "e">>

\* s.replace("'", "''")
RECURSIVE DoubleQuotes(_)
DoubleQuotes(s) ==
    IF s = <<>> THEN <<>>
    ELSE IF Head(s) = "'" THEN <<"'", "'">> \o DoubleQuotes(Tail(s))
    ELSE <<Head(s)>> \o DoubleQuotes(Tail(s))

----------------------------------------------------------------------------
(* json.loads / json.dumps on the JSON subset the model's option texts use: *)
(* arrays, strings with the escapes \" and \\, null, and blanks as          *)
(* whitespace.                                                              *)

JsonFail == [ok |-> FALSE, val |-> NoneV, next |-> 0]

\* the first position >= i that holds no blank (Len(s) + 1 when there is none)
SkipWs(s, i) ==
    LET stops == {j \in i..(Len(s) + 1) : j = Len(s) + 1 \/ s[j] # " "}
    IN  CHOOSE j \in stops : \A k \in stops : j <= k

\* the string whose opening quote is before position j of s, read from j on with
\* acc already read: up to the closing quote, \" and \\ standing for " and \
RECURSIVE ScanString(_, _, _)
ScanString(s, j, acc) ==
    IF j > Len(s) THEN JsonFail
    ELSE IF s[j] = "\"" THEN [ok |-> TRUE, val |-> Str(acc), next |-> j + 1]
    ELSE IF s[j] = "\\" THEN
        IF j + 1 <= Len(s) /\ s[j + 1] \in {"\"", "\\"}
        THEN ScanString(s, j + 2, Append(acc, s[j + 1]))
        ELSE JsonFail
    ELSE ScanString(s, j + 1, Append(acc, s[j]))

RECURSIVE ParseValue(_, _)
RECURSIVE ParseElems(_, _, _)

\* the value that starts at position i of s
ParseValue(s, i) ==
    IF i > Len(s) THEN JsonFail
    ELSE IF s[i] = "\"" THEN ScanString(s, i + 1, <<>>)
    ELSE IF s[i] = "[" THEN
        LET j == SkipWs(s, i + 1)
        IN  IF j > Len(s) THEN JsonFail
            ELSE IF s[j] = "]" THEN [ok |-> TRUE, val |-> ListV(<<>>), next |-> j + 1]
            ELSE ParseElems(s, j, <<>>)
    ELSE IF i + 3 <= Len(s) /\ SubSeq(s, i, i + 3) = <<"n", "u", "l", "l">> THEN
        [ok |-> TRUE, val |-> NoneV, next |-> i + 4]
    ELSE JsonFail

\* the rest of an array whose next element starts at position i
ParseElems(s, i, acc) ==
    LET r == ParseValue(s, i)
    IN  IF ~r.ok THEN JsonFail
        ELSE LET j == SkipWs(s, r.next)
             IN  IF j > Len(s) THEN JsonFail
                 ELSE IF s[j] = "," THEN ParseElems(s, SkipWs(s, j + 1), Append(acc, r.val))
                 ELSE IF s[j] = "]" THEN
                     [ok |-> TRUE, val |-> ListV(Append(acc, r.val)), next |-> j + 1]
                 ELSE JsonFail

\* json.loads(s): ok = FALSE stands for JSONDecodeError
JsonLoads(s) ==
    LET r == ParseValue(s, SkipWs(s, 1))
    IN  IF r.ok /\ SkipWs(s, r.next) = Len(s) + 1 THEN r ELSE JsonFail

\* the body of a JSON string: " and \ of s each behind a backslash
RECURSIVE JsonEscape(_)
JsonEscape(s) ==
    IF s = <<>> THEN <<>>
    ELSE IF Head(s) \in {"\"", "\\"} THEN <<"\\", Head(s)>> \o JsonEscape(Tail(s))
    ELSE <<Head(s)>> \o JsonEscape(Tail(s))

RECURSIVE JsonDumps(_)
RECURSIVE JsonJoin(_)

\* json.dumps(x) with the default separators
JsonDumps(x) ==
    IF x.t = "str" THEN <<"\"">> \o JsonEscape(x.v) \o <<"\"">>
    ELSE IF x.t = "list" THEN <<"[">> \o JsonJoin(x.v) \o <<"]">>
    ELSE IF x.t = "int" THEN StrOfNat(x.v)
    ELSE <<"n", "u", "l", "l">>

\* ', '.join of the dumped elements
JsonJoin(l) ==
    IF l = <<>> THEN <<>>
    ELSE IF Len(l) = 1 THEN JsonDumps(l[1])
    ELSE JsonDumps(l[1]) \o <<",", " ">> \o JsonJoin(Tail(l))

\* ['Option A', 'Option B', 'Option C', 'Option D']
DefaultOptions ==
    ListV(<<Str(<<"O", "p", "t", "i", "o", "n", " ", "A">>),
            Str(<<"O", "p", "t", "i", "o", "n", " ", "B">>),
            Str(<<"O", "p", "t", "i", "o", "n", " ", "C">>),
            Str(<<"O", "p", "t", "i", "o", "n", " ", "D">>)>>)

----------------------------------------------------------------------------
(* Row classifiers *)

\* clean_and_complete_quiz_csv.sample_indicators
sample_indicators ==
    << <<"S", "a", "m", "p", "l", "e", " ", "q", "u", "e", "s", "t", "i", "o", "n">>,
       <<"P", "l", "e", "a", "s", "e", " ", "a", "d", "d", " ", "c", "o", "n", "t", "e", "n", "t">>,
       <<"S", "a", "m", "p", "l", "e", " ", "e", "x", "p", "l", "a", "n", "a", "t", "i", "o", "n">> >>

\* generate_50_questions_per_category.placeholder_indicators
placeholder_indicators ==
    << <<"S", "a", "m", "p", "l", "e", " ", "q", "u", "e", "s", "t", "i", "o", "n">>,
       <<"P", "l", "e", "a", "s", "e", " ", "a", "d", "d", " ", "c", "o", "n", "t", "e", "n", "t">>,
       <<"O", "p", "t", "i", "o", "n", " ", "A">> >>

\* is_sample_question raises AttributeError: None has no .lower()
is_sample_question_raises(question_text, explanation_text) ==
    IsNone(question_text) \/ IsNone(explanation_text)

\* indicator.lower() of every indicator
sample_indicators_lower ==
    [k \in 1..Len(sample_indicators) |-> Lower(sample_indicators[k])]

\* is_sample_question without the lower-casing of the two texts
is_sample_question_case_sensitive(question_text, explanation_text) ==
    IF \E k \in 1..Len(sample_indicators) :
           Contains(question_text.v, sample_indicators[k])
    THEN TRUE
    ELSE IF \E k \in 1..Len(sample_indicators) :
                Contains(explanation_text.v, sample_indicators[k])
    THEN TRUE
    ELSE FALSE

\* is_sample_question on two str values
is_sample_question(question_text, explanation_text) ==
    LET question_lower == Lower(question_text.v)
        explanation_lower == Lower(explanation_text.v)
    IN  IF \E k \in 1..Len(sample_indicators) :
               Contains(question_lower, sample_indicators_lower[k])
        THEN TRUE
        ELSE IF \E k \in 1..Len(sample_indicators) :
                    Contains(explanation_lower, sample_indicators_lower[k])
        THEN TRUE
        ELSE FALSE

\* is_placeholder_question raises TypeError: 'in' on None
is_placeholder_question_raises(question_text) == IsNone(question_text)

\* is_placeholder_question on a str value
is_placeholder_question(question_text) ==
    \E k \in 1..Len(placeholder_indicators) :
        Contains(question_text.v, placeholder_indicators[k])

----------------------------------------------------------------------------
(* The hardcoded question banks.  The text of a bank question is data the  *)
(* scripts never look inside (it holds no marker phrase); the k-th entry   *)
(* is written Bk / Ek, with the four options w, x, y, z and the            *)
(* correct_answer the source gives.                                        *)

\* the quota of questions per category, hardcoded in both scripts
Target == 50

EmptyDict == [x \in {} |-> NoneV]

BankOptions == ListV(<<Str(<<"w">>), Str(<<"x">>), Str(<<"y">>), Str(<<"z">>)>>)

\* one literal {'question', 'options', 'correct_answer', 'explanation'} dict
BankQuestion(k, answer) ==
    [x \in {"question", "options", "correct_answer", "explanation"} |->
        CASE x = "question" -> Str(<<"B">> \o StrOfNat(k))
          [] x = "options" -> BankOptions
          [] x = "correct_answer" -> IntV(answer)
          [] x = "explanation" -> Str(<<"E">> \o StrOfNat(k))]

MakeBank(answers) == [k \in 1..Len(answers) |-> BankQuestion(k, answers[k])]

\* the correct_answer values of the lists in generate_additional_questions
CleanAnswers(category) ==
    CASE category = "pillars" ->
            <<0,1,2,1,2,2,1,2,0,0,0,1,1,1,3,0,0,3,0,1,2,2,3,2,2,3,3,2,1,3,2,0,1,3,3,0,3,
              0,3,1,3,3,3,0,3>>
      [] category = "fiqh" ->
            <<0,3,3,0,1,1,0,1,1,1,1,3,1,0,1,1,1,1,1,3,2,2,2,1,1,1,1,1,1,1>>
      [] category = "history" ->
            <<1,3,0,1,2,1,2,2,2,0,3,1,1,1,2,0,2,2,0,0,0,1,3,2,0,1,3,3,1,2,1,1,0,2,0,0,2,1>>
      [] category = "prophets" ->
            <<0,1,3,2,0,2,2,1,1,0,1,2,1,2,2,2,0,1,0,2,1,2,1,2,0,1,1,2,1,1,1,2,1,2,1,3,1,
              3,3,3,1,2,3>>
      [] OTHER -> <<>>

\* clean_and_complete_quiz_csv.generate_additional_questions
generate_additional_questions(category, count_needed) ==
    LET questions == MakeBank(CleanAnswers(category))
    IN  Take(questions, count_needed)

\* the correct_answer values of the lists in generate_<category>_questions
Gen50Answers(category) ==
    CASE category = "pillars" -> <<1, 1, 2>>
      [] category = "fiqh" -> <<0, 3>>
      [] category = "history" -> <<1, 3>>
      [] category = "prophets" -> <<0>>
      [] category = "quran" -> <<0>>
      [] category = "seerah" -> <<0>>
      [] OTHER -> <<>>

\* generate_50_questions_per_category.generate_<category>_questions(count)
generator(category, count) == Take(MakeBank(Gen50Answers(category)), count)

\* generate_50_questions_per_category.generate_missing_questions
generate_missing_questions(category, current_count, target) ==
    LET needed == Max(0, target - current_count)
    IN  IF needed = 0 THEN <<>> ELSE generator(category, needed)

\* categories with a seventh name, one that input rows carry
categories_with_tafsir ==
    <<"quran", "seerah", "history", "pillars", "fiqh", "prophets", "tafsir">>

\* categories, the list both mains loop over
categories == <<"quran", "seerah", "history", "pillars", "fiqh", "prophets">>

----------------------------------------------------------------------------
(* The input CSV files.  A file is the list of dicts csv.DictReader yields: *)
(* every header column is a key of every row, and a line with fewer fields  *)
(* than the header has None for the missing ones.  A file holds n lines of  *)
(* one category laid out after one of the patterns below; line i has the    *)
(* id ri, the question Qi and the order_index i.                            *)

\* the largest number of lines of an input file
MaxRows == 52

Patterns == {"plain", "sampled", "mixed", "short", "nooptions"}

Header == {"id", "quiz_id", "question_id", "question", "options", "correct_answer",
           "explanation", "order_index", "created_at"}

\* a category name as the str a row carries
CatKey(category) == Str(<<category>>)

\* the options column of line i
OptionTexts ==
    << <<"[", "\"", "a", "\"", ",", "\"", "b", "\"", ",", "\"", "c", "\"", ",", "\"", "d", "\"", "]">>,
       <<"[", "\"", "a", "\"", ",", " ", "\"", "b", "\"", ",", " ", "\"", "c", "\"", ",", " ",
         "\"", "d", " ", "e", "\"", " ", "]">>,
       <<"[", "\"", "a", "\"", ",", "\"", "b", "\"", ",", "\"", "c", "\"", "]">>,
       <<"[", "\"", "a", "\"", ",", "\"", "b", "\"">>,
       <<"\"", "a", "\"">>,
       <<>>,
       <<"n", "u", "l", "l">>,
       <<"[", "[", "\"", "a", "\"", "]", ",", "\"", "b", "\"", ",", "n", "u", "l", "l", ",", "[", "]", "]">>,
       <<"[", "\"", "a", "\"", ",", "\"", "b", "\"", ",", "\"", "c", "\"", ",", "\"", "d", "\"", ",",
         "\"", "e", "\"", "]">>,
       <<"a", ",", "b", ",", "c", ",", "d">> >>

\* question and explanation of the placeholder lines of the "sampled" pattern
SampleTexts ==
    << [question |-> <<"S", "a", "m", "p", "l", "e", " ", "q", "u", "e", "s", "t", "i", "o", "n", " ", "1">>,
        explanation |-> <<"x">>],
       [question |-> <<"S", "A", "M", "P", "L", "E", " ", "Q", "U", "E", "S", "T", "I", "O", "N">>,
        explanation |-> <<"x">>],
       [question |-> <<"Q">>,
        explanation |-> <<"S", "a", "m", "p", "l", "e", " ", "e", "x", "p", "l", "a", "n", "a", "t", "i", "o", "n">>],
       [question |-> <<"p", "l", "e", "a", "s", "e", " ", "A", "D", "D", " ", "c", "o", "n", "t", "e", "n", "t", ".">>,
        explanation |-> <<>>],
       [question |-> <<"I", "s", " ", "O", "p", "t", "i", "o", "n", " ", "A", "?">>,
        explanation |-> <<"x">>],
       [question |-> <<"P", "l", "e", "a", "s", "e", " ", "a", "d", "d", " ", "c", "o", "n", "t", "e", "n", "t">>,
        explanation |-> <<"S", "A", "M", "P", "L", "E", " ", "E", "X", "P", "L", "A", "N", "A", "T", "I", "O", "N">>] >>

IsSampleLine(pattern, i) == pattern = "sampled" /\ i % 3 = 1

SampleOf(i) == SampleTexts[((i \div 3) % Len(SampleTexts)) + 1]

\* the number of fields of line i, counted in header order
FieldCount(pattern, i) ==
    IF pattern = "short" /\ i = 3 THEN 5
    ELSE IF pattern = "short" /\ i = 5 THEN 3
    ELSE 9

\* the category after `category` in categories, the first after the last
OtherCategory(category) ==
    LET k == CHOOSE j \in 1..Len(categories) : categories[j] = category
    IN  categories[(k % Len(categories)) + 1]

\* line i of the file (category, pattern, n), as csv.DictReader yields it
InputRow(category, pattern, i) ==
    LET fields == FieldCount(pattern, i)
        cols == IF pattern = "nooptions" THEN Header \ {"options"} ELSE Header
    IN  [x \in cols |->
            CASE x = "id" -> Str(<<"r">> \o StrOfNat(i))
              [] x = "quiz_id" ->
                    IF pattern = "mixed" /\ i % 4 = 0 THEN CatKey("tafsir")
                    ELSE IF pattern = "mixed" /\ i % 2 = 0 THEN CatKey(OtherCategory(category))
                    ELSE CatKey(category)
              [] x = "question_id" -> Str(<<"q">> \o Pad3(i))
              [] x = "question" ->
                    IF fields < 4 THEN NoneV
                    ELSE IF IsSampleLine(pattern, i) THEN Str(SampleOf(i).question)
                    ELSE Str(<<"Q">> \o StrOfNat(i))
              [] x = "options" ->
                    IF fields < 5 THEN NoneV
                    ELSE Str(OptionTexts[(i % Len(OptionTexts)) + 1])
              [] x = "correct_answer" ->
                    IF fields < 6 THEN NoneV ELSE Str(<<Digits[(i % 5) + 1]>>)
              [] x = "explanation" ->
                    IF fields < 7 THEN NoneV
                    ELSE IF IsSampleLine(pattern, i) THEN Str(SampleOf(i).explanation)
                    ELSE Str(<<"X">> \o StrOfNat(i))
              [] x = "order_index" ->
                    IF fields < 8 THEN NoneV ELSE Str(StrOfNat(i))
              [] x = "created_at" ->
                    IF fields < 9 THEN NoneV ELSE Str(<<"2025-12-01">>)]

InputFile(category, pattern, n) == [i \in 1..n |-> InputRow(category, pattern, i)]

InputFiles ==
    {InputFile(categories[c], p, n) : c \in 1..Len(categories), p \in Patterns, n \in 0..MaxRows}

----------------------------------------------------------------------------
(* Helpers shared by the two CSV pipelines *)

\* real_questions_by_category[quiz_id].append(row), creating the list first
AppendTo(by_category, quiz_id, row) ==
    IF quiz_id \in DOMAIN by_category
    THEN [by_category EXCEPT ![quiz_id] = Append(@, row)]
    ELSE DictSet(by_category, quiz_id, <<row>>)

\* str(uuid.uuid4()): the k-th identifier handed out
Uuid(k) == Str(<<"u">> \o StrOfNat(k))

\* datetime.now(timezone.utc).isoformat(), taken once per run
created_at == Str(<<"now">>)

\* the body of `for q in additional:` of the quota step, over the whole list
RECURSIVE AppendAdditional(_, _, _, _)
AppendAdditional(to_use, additional, category, uuid) ==
    IF additional = <<>> THEN to_use
    ELSE LET q0 == Head(additional)
             q1 == DictSet(q0, "quiz_id", CatKey(category))
             q2 == DictSet(q1, "id", Uuid(uuid + 1))
             q3 == DictSet(q2, "question_id", Str(<<"q">> \o Pad3(Len(to_use) + 1)))
             q4 == DictSet(q3, "order_index", Str(StrOfNat(Len(to_use) + 1)))
             q5 == DictSet(q4, "created_at", created_at)
         IN  AppendAdditional(Append(to_use, q5), Tail(additional), category, uuid + 1)

\* what csv.DictWriter writes for one row: None becomes the empty field
CsvRow(row) == [x \in DOMAIN row |-> IF IsNone(row[x]) THEN <<>> ELSE PyStr(row[x])]

\* writer.writeheader(); writer.writerows(all_questions)
CsvFile(rows) == [written |-> TRUE, rows |-> [i \in 1..Len(rows) |-> CsvRow(rows[i])]]

NoFile == [written |-> FALSE, rows |-> <<>>]

\* number of rows of `rows` whose quiz_id is the category
RECURSIVE CountOf(_, _)
CountOf(rows, category) ==
    IF rows = <<>> THEN 0
    ELSE (IF Head(rows)["quiz_id"] = CatKey(category) THEN 1 ELSE 0)
         + CountOf(Tail(rows), category)

----------------------------------------------------------------------------
(* clean_and_complete_quiz_csv.main *)

\* the `for row in reader:` loop from line i on
RECURSIVE CleanReadLoop(_, _, _, _)
CleanReadLoop(rows, i, by_category, samples) ==
    IF i > Len(rows)
    THEN [raised |-> FALSE, by_category |-> by_category, samples |-> samples]
    ELSE LET row == rows[i]
             quiz_id == row["quiz_id"]
             question_text == Get(row, "question", Str(<<>>))
             explanation_text == Get(row, "explanation", Str(<<>>))
         IN  IF is_sample_question_raises(question_text, explanation_text)
             THEN [raised |-> TRUE, by_category |-> by_category, samples |-> samples]
             ELSE IF ~is_sample_question(question_text, explanation_text)
             THEN CleanReadLoop(rows, i + 1, AppendTo(by_category, quiz_id, row), samples)
             ELSE CleanReadLoop(rows, i + 1, by_category, samples + 1)

\* CleanFillQuota with the shortfall computed one too small
CleanFillQuota_one_short(real_questions, category, uuid) ==
    LET current_count == Len(real_questions)
        needed == Max(0, Target - 1 - current_count)
        first == Take(real_questions, Target)
        filled == IF needed > 0
                  THEN AppendAdditional(first, generate_additional_questions(category, needed),
                                        category, uuid)
                  ELSE first
    IN  Take(filled, Target)

\* the quota step: questions_to_use of one category
CleanFillQuota(real_questions, category, uuid) ==
    LET current_count == Len(real_questions)
        needed == Max(0, Target - current_count)
        first == Take(real_questions, Target)
        filled == IF needed > 0
                  THEN AppendAdditional(first, generate_additional_questions(category, needed),
                                        category, uuid)
                  ELSE first
    IN  Take(filled, Target)

\* CleanOptions without the check that the list has 4 elements
CleanOptions_any_length(q) ==
    LET options ==
            IF "options" \in DOMAIN q
            THEN IF IsStr(q["options"])
                 THEN LET r == JsonLoads(q["options"].v)
                      IN  IF r.ok THEN r.val ELSE DefaultOptions
                 ELSE q["options"]
            ELSE DefaultOptions
    IN  IF ~IsList(options) THEN DefaultOptions ELSE options

\* the options of one question, as the format step settles them
CleanOptions(q) ==
    LET options ==
            IF "options" \in DOMAIN q
            THEN IF IsStr(q["options"])
                 THEN LET r == JsonLoads(q["options"].v)
                      IN  IF r.ok THEN r.val ELSE DefaultOptions
                 ELSE q["options"]
            ELSE DefaultOptions
    IN  IF ~IsList(options) \/ Len(options.v) # 4 THEN DefaultOptions ELSE options

\* the row dict built for questions_to_use[idx] (idx counts from 0)
CleanFormatRow(q, idx, category, uuid) ==
    [x \in Header |->
        CASE x = "id" -> Get(q, "id", Uuid(uuid + 1))
          [] x = "quiz_id" -> CatKey(category)
          [] x = "question_id" -> Get(q, "question_id", Str(<<"q">> \o Pad3(idx + 1)))
          [] x = "question" -> Get(q, "question", Str(<<>>))
          [] x = "options" -> Str(JsonDumps(CleanOptions(q)))
          [] x = "correct_answer" -> Str(PyStr(Get(q, "correct_answer", IntV(0))))
          [] x = "explanation" -> Get(q, "explanation", Str(<<>>))
          [] x = "order_index" -> Str(PyStr(Get(q, "order_index", IntV(idx + 1))))
          [] x = "created_at" -> Get(q, "created_at", created_at)]

\* sorted() of the category names a run can meet
SortedNames == <<"fiqh", "history", "pillars", "prophets", "quran", "seerah", "tafsir">>

\* the lines printed once the input is read
CleanReadLines(by_category, samples) ==
    LET present == SelectSeq(SortedNames, LAMBDA c : CatKey(c) \in DOMAIN by_category)
    IN  << <<"Removed ">> \o StrOfNat(samples) \o <<" sample questions">>,
           <<"Real questions per category:">> >>
        \o [k \in 1..Len(present) |->
               <<present[k], ": ">> \o StrOfNat(Len(by_category[CatKey(present[k])]))]

\* the lines printed after the output file is written
CleanSummaryLines(rows) ==
    LET present == SelectSeq(SortedNames, LAMBDA c : CountOf(rows, c) > 0)
    IN  << <<"Generated complete CSV with ">> \o StrOfNat(Len(rows)) \o <<" questions">>,
           <<"Output file: ", "quiz_questions_clean_50_per_category.csv">>,
           <<"Questions per category: ", "50">>,
           <<"Categories: ">> \o StrOfNat(Len(categories)),
           <<"Verification:">> >>
        \o [k \in 1..Len(present) |->
               <<present[k], ": ">> \o StrOfNat(CountOf(rows, present[k])) \o <<" questions">>]

\* what the CSV pipelines leave alone
otherVars == <<arg, result, row_idx, sql_rows, exit_code, handles>>

\* lines 1001-1018: read the input, classify every row, print the counts
CleanRead ==
    /\ script = "clean" /\ pc = "read"
    /\ LET r == CleanReadLoop(input, 1, EmptyDict, 0)
       IN  /\ real_questions_by_category' = r.by_category
           /\ sample_count' = r.samples
           /\ IF r.raised
              THEN pc' = "crashed" /\ stdout' = stdout
              ELSE /\ pc' = "quota"
                   /\ stdout' = stdout \o CleanReadLines(r.by_category, r.samples)
    /\ UNCHANGED <<script, input, cat_idx, questions_to_use, all_questions, uuid_next,
                   outfile, otherVars>>

\* lines 1027-1048: the quota step of the category at cat_idx
CleanQuota ==
    /\ script = "clean" /\ pc = "quota"
    /\ LET category == categories[cat_idx]
           real_questions == Get(real_questions_by_category, CatKey(category), <<>>)
           current_count == Len(real_questions)
           needed == Max(0, Target - current_count)
           to_use == CleanFillQuota(real_questions, category, uuid_next)
       IN  /\ questions_to_use' = to_use
           /\ uuid_next' = uuid_next + (Len(to_use) - Len(Take(real_questions, Target)))
           /\ stdout' = Append(stdout, <<category, ": ">> \o StrOfNat(current_count)
                               \o <<" real questions, need ">> \o StrOfNat(needed) \o <<" more">>)
    /\ pc' = "format"
    /\ UNCHANGED <<script, input, real_questions_by_category, sample_count, cat_idx,
                   all_questions, outfile, otherVars>>

\* lines 1051-1080: format the category's rows and append them to all_questions
CleanFormat ==
    /\ script = "clean" /\ pc = "format"
    /\ all_questions' = all_questions \o
           [k \in 1..Len(questions_to_use) |->
               CleanFormatRow(questions_to_use[k], k - 1, categories[cat_idx], uuid_next)]
    /\ cat_idx' = cat_idx + 1
    /\ pc' = IF cat_idx = Len(categories) THEN "write" ELSE "quota"
    /\ UNCHANGED <<script, input, real_questions_by_category, sample_count,
                   questions_to_use, uuid_next, outfile, stdout, otherVars>>

\* lines 1083-1087: write the output CSV
CleanWrite ==
    /\ script = "clean" /\ pc = "write"
    /\ outfile' = CsvFile(all_questions)
    /\ pc' = "summary"
    /\ UNCHANGED <<script, input, real_questions_by_category, sample_count, cat_idx,
                   questions_to_use, all_questions, uuid_next, stdout, otherVars>>

\* lines 1089-1101: print the summary and the verification counts
CleanSummary ==
    /\ script = "clean" /\ pc = "summary"
    /\ stdout' = stdout \o CleanSummaryLines(all_questions)
    /\ pc' = "done"
    /\ UNCHANGED <<script, input, real_questions_by_category, sample_count, cat_idx,
                   questions_to_use, all_questions, uuid_next, outfile, otherVars>>

----------------------------------------------------------------------------
(* generate_50_questions_per_category.main *)

\* the `for row in reader:` loop from line i on
RECURSIVE Gen50ReadLoop(_, _, _)
Gen50ReadLoop(rows, i, by_category) ==
    IF i > Len(rows)
    THEN [raised |-> FALSE, by_category |-> by_category]
    ELSE LET row == rows[i]
             quiz_id == row["quiz_id"]
         IN  IF is_placeholder_question_raises(row["question"])
             THEN [raised |-> TRUE, by_category |-> by_category]
             ELSE IF ~is_placeholder_question(row["question"])
             THEN Gen50ReadLoop(rows, i + 1, AppendTo(by_category, quiz_id, row))
             ELSE Gen50ReadLoop(rows, i + 1, by_category)

\* Gen50FillQuota with the synthetic questions put in front of the real ones
Gen50FillQuota_synthetic_first(real_questions, category, uuid) ==
    LET first == Take(real_questions, Target)
        additional == IF Len(first) < Target
                      THEN AppendAdditional(<<>>,
                                            generate_missing_questions(category, Len(first), Target),
                                            category, uuid)
                      ELSE <<>>
    IN  Take(additional \o first, Target)

\* the quota step: questions_to_use of one category
Gen50FillQuota(real_questions, category, uuid) ==
    LET first == Take(real_questions, Target)
        filled == IF Len(first) < Target
                  THEN AppendAdditional(first,
                                        generate_missing_questions(category, Len(first), Target),
                                        category, uuid)
                  ELSE first
    IN  Take(filled, Target)

\* the options of one question, as the format step settles them
Gen50Options(q) ==
    IF "options" \notin DOMAIN q \/ IsStr(q["options"])
    THEN IF IsStr(Get(q, "options", NoneV))
         THEN LET r == JsonLoads(q["options"].v)
              IN  IF r.ok THEN r.val ELSE DefaultOptions
         ELSE Get(q, "options", ListV(<<>>))
    ELSE q["options"]

\* the row dict built for questions_to_use[idx] (idx counts from 0)
Gen50FormatRow(q, idx, category, uuid) ==
    LET options == Gen50Options(q)
    IN  [x \in Header |->
            CASE x = "id" -> Get(q, "id", Uuid(uuid + 1))
              [] x = "quiz_id" -> CatKey(category)
              [] x = "question_id" -> Get(q, "question_id", Str(<<"q">> \o Pad3(idx + 1)))
              [] x = "question" -> Get(q, "question", Str(<<>>))
              [] x = "options" -> IF ~IsStr(options) THEN Str(JsonDumps(options)) ELSE options
              [] x = "correct_answer" -> Str(PyStr(Get(q, "correct_answer", IntV(0))))
              [] x = "explanation" -> Get(q, "explanation", Str(<<>>))
              [] x = "order_index" -> Str(PyStr(Get(q, "order_index", IntV(idx + 1))))
              [] x = "created_at" -> Get(q, "created_at", created_at)]

\* the lines printed after the output file is written
Gen50SummaryLines(rows) ==
    << <<"Generated ">> \o StrOfNat(Len(rows)) \o <<" questions total">>,
       <<"Output file: ", "quiz_questions_50_per_category_complete.csv">>,
       <<"Questions per category: ", "50">>,
       <<"Categories: ">> \o StrOfNat(Len(categories)) >>

\* lines 146-153: read the input and classify every row
Gen50Read ==
    /\ script = "gen50" /\ pc = "read"
    /\ LET r == Gen50ReadLoop(input, 1, EmptyDict)
       IN  /\ real_questions_by_category' = r.by_category
           /\ pc' = IF r.raised THEN "crashed" ELSE "quota"
    /\ UNCHANGED <<script, input, sample_count, cat_idx, questions_to_use, all_questions,
                   uuid_next, outfile, stdout, otherVars>>

\* lines 162-181: the quota step of the category at cat_idx
Gen50Quota ==
    /\ script = "gen50" /\ pc = "quota"
    /\ LET category == categories[cat_idx]
           real_questions == Get(real_questions_by_category, CatKey(category), <<>>)
           current_count == Len(real_questions)
           to_use == Gen50FillQuota(real_questions, category, uuid_next)
       IN  /\ questions_to_use' = to_use
           /\ uuid_next' = uuid_next + (Len(to_use) - Len(Take(real_questions, Target)))
           /\ stdout' = Append(stdout, <<category, ": ">> \o StrOfNat(current_count)
                               \o <<" real questions found">>)
    /\ pc' = "format"
    /\ UNCHANGED <<script, input, real_questions_by_category, sample_count, cat_idx,
                   all_questions, outfile, otherVars>>

\* lines 184-205: format the category's rows and append them to all_questions
Gen50Format ==
    /\ script = "gen50" /\ pc = "format"
    /\ all_questions' = all_questions \o
           [k \in 1..Len(questions_to_use) |->
               Gen50FormatRow(questions_to_use[k], k - 1, categories[cat_idx], uuid_next)]
    /\ cat_idx' = cat_idx + 1
    /\ pc' = IF cat_idx = Len(categories) THEN "write" ELSE "quota"
    /\ UNCHANGED <<script, input, real_questions_by_category, sample_count,
                   questions_to_use, uuid_next, outfile, stdout, otherVars>>

\* lines 208-212: write the output CSV
Gen50Write ==
    /\ script = "gen50" /\ pc = "write"
    /\ outfile' = CsvFile(all_questions)
    /\ pc' = "summary"
    /\ UNCHANGED <<script, input, real_questions_by_category, sample_count, cat_idx,
                   questions_to_use, all_questions, uuid_next, stdout, otherVars>>

\* lines 214-217: print the summary
Gen50Summary ==
    /\ script = "gen50" /\ pc = "summary"
    /\ stdout' = stdout \o Gen50SummaryLines(all_questions)
    /\ pc' = "done"
    /\ UNCHANGED <<script, input, real_questions_by_category, sample_count, cat_idx,
                   questions_to_use, all_questions, uuid_next, outfile, otherVars>>

----------------------------------------------------------------------------
(* The two CSV pipelines, run on every input file of InputFiles *)

Init ==
    /\ script \in {"clean", "gen50"}
    /\ pc = "read"
    /\ input \in InputFiles
    /\ real_questions_by_category = EmptyDict
    /\ sample_count = 0
    /\ cat_idx = 1
    /\ questions_to_use = <<>>
    /\ all_questions = <<>>
    /\ uuid_next = 0
    /\ outfile = NoFile
    /\ stdout = <<>>
    /\ arg = NoneV
    /\ result = NoneV
    /\ row_idx = 1
    /\ sql_rows = <<>>
    /\ exit_code = NoneV
    /\ handles = NoHandles

Next ==
    \/ CleanRead
    \/ CleanQuota
    \/ CleanFormat
    \/ CleanWrite
    \/ CleanSummary
    \/ Gen50Read
    \/ Gen50Quota
    \/ Gen50Format
    \/ Gen50Write
    \/ Gen50Summary

Spec == Init /\ [][Next]_vars

----------------------------------------------------------------------------
(* What the claims about the CSV pipelines speak of *)

\* a category has just been formatted: its rows are the last ones of all_questions
JustFormatted == script \in {"clean", "gen50"} /\ pc \in {"quota", "write"} /\ cat_idx > 1

LastCategory == categories[cat_idx - 1]

\* the rows emitted for a category, in emission order
EmittedFor(category) ==
    SelectSeq(all_questions, LAMBDA row : row["quiz_id"] = CatKey(category))

\* the running script's classifier says the input row is a placeholder
ClassifiedPlaceholder(row) ==
    IF script = "clean"
    THEN is_sample_question(row["question"], row["explanation"])
    ELSE is_placeholder_question(row["question"])

\* the non-placeholder input rows of a category, in input-file order
RealInputRows(category) ==
    SelectSeq(input, LAMBDA row : row["quiz_id"] = CatKey(category)
                                  /\ ~ClassifiedPlaceholder(row))

\* the hardcoded bank of the running script for a category
BankOf(category) ==
    IF script = "clean" THEN MakeBank(CleanAnswers(category))
    ELSE MakeBank(Gen50Answers(category))

\* the ids of the input rows
InputIds == {input[i]["id"] : i \in 1..Len(input)}

\* C1: a category with r non-placeholder input rows and a bank of b questions,
\* r + b >= 50, gets exactly 50 emitted rows; with r >= 50 none of them is synthetic.
C1_QuotaMet ==
    JustFormatted =>
        LET real == RealInputRows(LastCategory)
            emitted == EmittedFor(LastCategory)
        IN  /\ Len(real) + Len(BankOf(LastCategory)) >= Target => Len(emitted) = Target
            /\ Len(real) >= Target =>
                   \A k \in 1..Len(emitted) : emitted[k]["id"] = real[k]["id"]

\* a category short of real rows was filled up to exactly 50 from its bank
C1_Witness ==
    /\ JustFormatted
    /\ Len(RealInputRows(LastCategory)) \in 1..(Target - 1)
    /\ Len(RealInputRows(LastCategory)) + Len(BankOf(LastCategory)) >= Target
    /\ Len(EmittedFor(LastCategory)) = Target
    /\ EmittedFor(LastCategory)[Target]["id"] \notin InputIds

\* C2: the order_index values of the rows clean_and_complete_quiz_csv.main emits
\* for a category are 1, 2, ..., N in emission order.
C2_DenseOrderIndex ==
    (JustFormatted /\ script = "clean") =>
        LET emitted == EmittedFor(LastCategory)
        IN  \A k \in 1..Len(emitted) : emitted[k]["order_index"] = Str(StrOfNat(k))

\* C3: the emitted rows of a category are its real input rows in file order (the
\* first 50 of them), followed by bank questions in bank order and nothing else.
C3_RealRowsFirst ==
    JustFormatted =>
        LET real == RealInputRows(LastCategory)
            emitted == EmittedFor(LastCategory)
            bank == BankOf(LastCategory)
            n == Min(Len(real), Target)
        IN  /\ Len(emitted) >= n
            /\ Len(emitted) - n <= Len(bank)
            /\ \A k \in 1..Len(emitted) :
                   IF k <= n
                   THEN /\ emitted[k]["id"] = real[k]["id"]
                        /\ emitted[k]["question"] = real[k]["question"]
                   ELSE /\ emitted[k]["id"] \notin InputIds
                        /\ emitted[k]["question"] = bank[k - n]["question"]

\* real rows that were kept after a removed placeholder, followed by bank questions
C3_Witness ==
    /\ JustFormatted
    /\ LET real == RealInputRows(LastCategory)
           emitted == EmittedFor(LastCategory)
       IN  /\ Len(real) >= 2
           /\ Len(emitted) > Len(real)
           /\ real[1]["id"] # input[1]["id"]
           /\ emitted[1]["id"] = real[1]["id"]
           /\ emitted[Len(real) + 1]["id"] \notin InputIds

\* a printed line that warns of a shortfall in the category
ShortfallWarning(line, category) ==
    Len(line) >= 2 /\ line[1] = "WARNING: " /\ line[2] = category

\* C4: when a category ends with fewer than 50 rows, the summary warns of the
\* shortfall for that category and does not report 50 questions per category.
C4_ShortfallReported ==
    (script \in {"clean", "gen50"} /\ pc = "done") =>
        \A c \in 1..Len(categories) :
            Len(EmittedFor(categories[c])) < Target =>
                /\ \E i \in 1..Len(stdout) : ShortfallWarning(stdout[i], categories[c])
                /\ \A i \in 1..Len(stdout) : stdout[i] # <<"Questions per category: ", "50">>

\* the list a record's original options stand for: the list itself, or the list
\* a JSON string encodes; None when there is no such list
OriginalList(q) ==
    IF "options" \notin DOMAIN q THEN NoneV
    ELSE IF IsList(q["options"]) THEN q["options"]
    ELSE IF IsStr(q["options"]) /\ JsonLoads(q["options"].v).ok
         THEN JsonLoads(q["options"].v).val
    ELSE NoneV

\* C8: the options field of every row clean_and_complete_quiz_csv.main emits is a
\* JSON array of 4 elements: the record's original 4-element list when it had
\* one, and ["Option A","Option B","Option C","Option D"] in every other case.
C8_OptionsRoundTrip ==
    (JustFormatted /\ script = "clean") =>
        LET emitted == EmittedFor(LastCategory)
        IN  /\ Len(emitted) = Len(questions_to_use)
            /\ \A k \in 1..Len(emitted) :
                   LET decoded == JsonLoads(emitted[k]["options"].v)
                       original == OriginalList(questions_to_use[k])
                   IN  /\ decoded.ok
                       /\ IsList(decoded.val)
                       /\ Len(decoded.val.v) = 4
                       /\ decoded.val = IF IsList(original) /\ Len(original.v) = 4
                                        THEN original
                                        ELSE DefaultOptions

\* one emitted row keeps a 4-element list whose input text differs from the text
\* written, another had undecodable options and carries the default list
C8_Witness ==
    /\ JustFormatted /\ script = "clean"
    /\ \E k \in 1..Len(questions_to_use) :
           LET q == questions_to_use[k]
           IN  /\ "options" \in DOMAIN q /\ IsStr(q["options"])
               /\ JsonLoads(q["options"].v).ok
               /\ OriginalList(q) # DefaultOptions
               /\ EmittedFor(LastCategory)[k]["options"] # q["options"]
               /\ JsonLoads(EmittedFor(LastCategory)[k]["options"].v).val = OriginalList(q)
    /\ \E k \in 1..Len(questions_to_use) :
           LET q == questions_to_use[k]
           IN  /\ "options" \in DOMAIN q /\ IsStr(q["options"])
               /\ ~JsonLoads(q["options"].v).ok
               /\ JsonLoads(EmittedFor(LastCategory)[k]["options"].v).val = DefaultOptions

\* some indicator of generate_50_questions_per_category occurs in the text in any
\* letter case
HasMarkerAnyCase(text) ==
    \E m \in 1..Len(placeholder_indicators) :
        Contains(Lower(text), Lower(placeholder_indicators[m]))

\* C10: generate_50_questions_per_category keeps no input row whose question holds
\* a marker phrase in any letter case: no such row is emitted.
C10_NoMarkerKept ==
    (JustFormatted /\ script = "gen50") =>
        LET emitted == EmittedFor(LastCategory)
        IN  \A k \in 1..Len(emitted) : ~HasMarkerAnyCase(emitted[k]["question"].v)

\* C21: every row clean_and_complete_quiz_csv emits has a correct_answer that is
\* an integer in 0..3 and so indexes into its 4 options.
C21_CorrectAnswerInRange ==
    (JustFormatted /\ script = "clean") =>
        LET emitted == EmittedFor(LastCategory)
        IN  \A k \in 1..Len(emitted) :
                emitted[k]["correct_answer"].v \in {<<"0">>, <<"1">>, <<"2">>, <<"3">>}

\* C30: every row clean_and_complete_quiz_csv.main writes has its quiz_id among
\* quran, seerah, history, pillars, fiqh, prophets, the rows grouped in exactly
\* that order; an input row that is no placeholder and has a quiz_id outside
\* the list is not in the output.
C30_SixCategoriesInOrder ==
    LET six == <<"quran", "seerah", "history", "pillars", "fiqh", "prophets">>
        position(row) == CHOOSE c \in 1..6 : row["quiz_id"] = <<six[c]>>
    IN  (script = "clean" /\ pc \in {"summary", "done"}) =>
            /\ \A k \in 1..Len(outfile.rows) :
                   \E c \in 1..6 : outfile.rows[k]["quiz_id"] = <<six[c]>>
            /\ \A k, l \in 1..Len(outfile.rows) :
                   k < l => position(outfile.rows[k]) <= position(outfile.rows[l])
            /\ \A i \in 1..Len(input) :
                   (/\ ~is_sample_question(Get(input[i], "question", Str(<<>>)),
                                           Get(input[i], "explanation", Str(<<>>)))
                    /\ \A c \in 1..6 : input[i]["quiz_id"] # CatKey(six[c]))
                       => \A k \in 1..Len(outfile.rows) :
                              outfile.rows[k]["id"] # input[i]["id"].v

\* the output is written, rows of two categories in it, and the input had a
\* row of the category tafsir that is no placeholder
C30_Witness ==
    /\ script = "clean" /\ pc = "summary"
    /\ \E k, l \in 1..Len(outfile.rows) :
           outfile.rows[k]["quiz_id"] = <<"quran">> /\ outfile.rows[l]["quiz_id"] = <<"prophets">>
    /\ \E k \in 1..Len(outfile.rows), i \in 1..Len(input) :
           outfile.rows[k]["id"] = input[i]["id"].v
    /\ \E i \in 1..Len(input) :
           /\ input[i]["quiz_id"] = CatKey("tafsir")
           /\ ~is_sample_question(Get(input[i], "question", Str(<<>>)),
                                  Get(input[i], "explanation", Str(<<>>)))

\* C11: clean_and_complete_quiz_csv classifies every row of the input without
\* raising, a row whose question or explanation field is absent included: the
\* read loop never ends in an exception.
C11_ClassifyNeverRaises ==
    script = "clean" => pc # "crashed"

----------------------------------------------------------------------------
(* is_sample_question as a function of its two arguments *)

\* what the pure-function specifications leave alone
pipelineVars == <<input, real_questions_by_category, sample_count, cat_idx,
                  questions_to_use, all_questions, uuid_next, outfile, stdout,
                  row_idx, sql_rows, exit_code, handles>>

PipelineIdle ==
    /\ input = <<>>
    /\ real_questions_by_category = EmptyDict
    /\ sample_count = 0
    /\ cat_idx = 1
    /\ questions_to_use = <<>>
    /\ all_questions = <<>>
    /\ uuid_next = 0
    /\ outfile = NoFile
    /\ stdout = <<>>
    /\ row_idx = 1
    /\ sql_rows = <<>>
    /\ exit_code = NoneV
    /\ handles = NoHandles

\* the longest run of other text put before and after a phrase
MaxPad == 1

UpperMap ==
    [c \in {LowerLetters[i] : i \in 1..Len(LowerLetters)} |->
        UpperLetters[CHOOSE i \in 1..Len(LowerLetters) : LowerLetters[i] = c]]

Upper(s) == [i \in 1..Len(s) |-> IF s[i] \in DOMAIN UpperMap THEN UpperMap[s[i]] ELSE s[i]]

\* upper case at the odd positions, lower case at the even ones
Alternate(s) == [i \in 1..Len(s) |-> IF i % 2 = 1 THEN Upper(<<s[i]>>)[1] ELSE LowerChar(s[i])]

CaseVariants(s) == {s, Lower(s), Upper(s), Alternate(s)}

\* the phrases the test texts are built around: the indicators, each indicator
\* without its last letter and with its blank doubled, and 'Option A'
Phrases ==
    LET ind == {sample_indicators[k] : k \in 1..Len(sample_indicators)}
        cut == {SubSeq(p, 1, Len(p) - 1) : p \in ind}
        wide == {SubSeq(p, 1, 6) \o <<" ">> \o SubSeq(p, 7, Len(p)) : p \in ind}
    IN  ind \cup cut \cup wide \cup {<<"O", "p", "t", "i", "o", "n", " ", "A">>}

Pads == {[i \in 1..n |-> "x"] : n \in 0..MaxPad}

QuestionTexts ==
    {<<>>} \cup
    {pre \o v \o suf : pre \in Pads, suf \in Pads,
                       v \in UNION {CaseVariants(p) : p \in Phrases}}

ExplanationTexts ==
    {<<>>, <<"x">>} \cup
    UNION {CaseVariants(p) : p \in {sample_indicators[k] : k \in 1..Len(sample_indicators)}}

ClassifyInit ==
    /\ script = "is_sample_question"
    /\ pc = "call"
    /\ arg \in {[question_text |-> Str(q), explanation_text |-> Str(e)] :
                   q \in QuestionTexts, e \in ExplanationTexts}
    /\ result = NoneV
    /\ PipelineIdle

\* is_sample_question(question_text, explanation_text)
IsSampleQuestionCall ==
    /\ script = "is_sample_question" /\ pc = "call"
    /\ result' = [t |-> "bool",
                  v |-> is_sample_question(arg.question_text, arg.explanation_text)]
    /\ pc' = "returned"
    /\ UNCHANGED <<script, arg, pipelineVars>>

SpecClassify == ClassifyInit /\ [][IsSampleQuestionCall]_vars

\* the phrase occurs in the text when letter case is disregarded
OccursAnyCase(phrase, text) ==
    \E off \in 0..(Len(text) - Len(phrase)) :
        \A j \in 1..Len(phrase) : LowerChar(text[off + j]) = LowerChar(phrase[j])

\* C9: is_sample_question returns True exactly when one of the three marker
\* phrases occurs, letter case disregarded, in the question or in the explanation.
C9_CaseInsensitiveMarkers ==
    (script = "is_sample_question" /\ pc = "returned") =>
        (result.v <=>
            \E k \in 1..Len(sample_indicators) :
                \/ OccursAnyCase(sample_indicators[k], arg.question_text.v)
                \/ OccursAnyCase(sample_indicators[k], arg.explanation_text.v))

\* True for a phrase that occurs only in the explanation and only in another
\* letter case than the indicator list writes it
C9_Witness ==
    /\ script = "is_sample_question" /\ pc = "returned"
    /\ result.v
    /\ arg.question_text.v = <<"x">> \o SubSeq(sample_indicators[1], 1, 14) \o <<"x">>
    /\ \A k \in 1..Len(sample_indicators) :
           ~Contains(arg.explanation_text.v, sample_indicators[k])

----------------------------------------------------------------------------
(* escape_sql_string of the lectures/recitations and verses/hadiths importers *)

\* the longest string escape_sql_string is applied to
MaxLen == 5

EscapeAlphabet == {"a", "'"}

OReilly == <<"O", "'", "R", "e", "i", "l", "l", "y">>

EscapeInputs ==
    {NoneV, Str(OReilly)} \cup
    {Str(s) : s \in UNION {[1..n -> EscapeAlphabet] : n \in 0..MaxLen}}

\* escape_sql_string without the doubling of embedded quotes
escape_sql_string_no_doubling(value) ==
    IF IsNone(value) THEN <<"N", "U", "L", "L">>
    ELSE <<"'">> \o PyStr(value) \o <<"'">>

\* generate_lectures_recitations_import.escape_sql_string
escape_sql_string(value) ==
    IF IsNone(value) THEN <<"N", "U", "L", "L">>
    ELSE <<"'">> \o DoubleQuotes(PyStr(value)) \o <<"'">>

\* generate_verses_hadiths_import.escape_sql_string
verses_escape_sql_string(s) ==
    IF IsNone(s) THEN <<"N", "U", "L", "L">>
    ELSE <<"'">> \o DoubleQuotes(PyStr(s)) \o <<"'">>

EscapeInit ==
    /\ script = "escape_sql_string"
    /\ pc = "call"
    /\ arg \in EscapeInputs
    /\ result = NoneV
    /\ PipelineIdle

\* escape_sql_string(value), by either importer
EscapeCall ==
    /\ script = "escape_sql_string" /\ pc = "call"
    /\ \E importer \in {"lectures", "verses"} :
           result' = [importer |-> importer,
                      text |-> IF importer = "lectures" THEN escape_sql_string(arg)
                               ELSE verses_escape_sql_string(arg)]
    /\ pc' = "returned"
    /\ UNCHANGED <<script, arg, pipelineVars>>

SpecEscape == EscapeInit /\ [][EscapeCall]_vars

\* number of single quotes in a string
RECURSIVE QuoteCount(_)
QuoteCount(s) ==
    IF s = <<>> THEN 0
    ELSE (IF Head(s) = "'" THEN 1 ELSE 0) + QuoteCount(Tail(s))

\* every doubled quote, read from the left, replaced by one quote
RECURSIVE Undouble(_)
Undouble(s) ==
    IF Len(s) >= 2 /\ s[1] = "'" /\ s[2] = "'" THEN <<"'">> \o Undouble(SubSeq(s, 3, Len(s)))
    ELSE IF s = <<>> THEN <<>>
    ELSE <<Head(s)>> \o Undouble(Tail(s))

\* x is s between one pair of single quotes, each quote of s doubled
QuotedWithDoubling(x, s) ==
    /\ Len(x) >= 2 /\ x[1] = "'" /\ x[Len(x)] = "'"
    /\ LET body == SubSeq(x, 2, Len(x) - 1)
       IN  /\ Len(body) = Len(s) + QuoteCount(s)
           /\ QuoteCount(body) = 2 * QuoteCount(s)
           /\ Undouble(body) = s

\* C7: escape_sql_string returns NULL for None and, for a string s, s between one
\* pair of single quotes with each embedded quote doubled, from which replacing
\* each doubled quote by one quote recovers s.
C7_EscapeSqlString ==
    (script = "escape_sql_string" /\ pc = "returned") =>
        IF IsNone(arg) THEN result.text = <<"N", "U", "L", "L">>
        ELSE QuotedWithDoubling(result.text, arg.v)

\* O'Reilly gives 'O''Reilly'
C7_Witness ==
    /\ script = "escape_sql_string" /\ pc = "returned"
    /\ arg = Str(OReilly)
    /\ result.text = <<"'", "O", "'", "'", "R", "e", "i", "l", "l", "y", "'">>

----------------------------------------------------------------------------
(* generate_quiz_import_sql: generate_sql and the handler under __main__ *)

\* the largest number of rows of the quiz questions CSV
MaxSqlRows == 2

\* an input file: whether the path exists, and the rows DictReader yields
File(rows) == [exists |-> TRUE, rows |-> rows]
MissingFile == [exists |-> FALSE, rows |-> <<>>]

QuotedText == <<"a", "'", "b">>

\* a row whose fields hold no quote and whose numbers are integers
PlainQuizRow ==
    [x \in Header |->
        CASE x = "correct_answer" -> Str(<<"0", "2">>)
          [] x = "order_index" -> Str(<<"1", "0">>)
          [] x = "options" -> Str(OptionTexts[1])
          [] OTHER -> Str(<<"a">>)]

\* PlainQuizRow with one field changed
QuizSqlRows ==
    {PlainQuizRow}
    \cup {[PlainQuizRow EXCEPT ![f] = Str(QuotedText)] :
             f \in {"id", "quiz_id", "question_id", "question", "options", "explanation",
                    "created_at"}}
    \cup {[PlainQuizRow EXCEPT !["question_id"] = Str(<<>>)],
          [PlainQuizRow EXCEPT !["correct_answer"] = Str(<<"x">>)],
          [PlainQuizRow EXCEPT !["order_index"] = Str(<<>>)],
          [PlainQuizRow EXCEPT !["explanation"] = NoneV, !["order_index"] = NoneV,
                               !["created_at"] = NoneV],
          [x \in Header \ {"created_at"} |-> PlainQuizRow[x]]}

QuizSqlFiles ==
    {MissingFile} \cup
    {File(rows) : rows \in UNION {[1..n -> QuizSqlRows] : n \in 0..MaxSqlRows}}

\* int(x) succeeds: x is a str of one or more decimal digits
IsDigitString(x) ==
    IsStr(x) /\ x.v # <<>> /\ \A i \in 1..Len(x.v) : \E d \in 1..10 : Digits[d] = x.v[i]

DigitValue(c) == (CHOOSE d \in 1..10 : Digits[d] = c) - 1

\* int(s) of a digit string
RECURSIVE IntOfDigits(_)
IntOfDigits(s) ==
    IF s = <<>> THEN 0
    ELSE 10 * IntOfDigits(SubSeq(s, 1, Len(s) - 1)) + DigitValue(s[Len(s)])

\* generate_quiz_import_sql.escape_sql_string
quiz_escape_sql_string(s) == DoubleQuotes(s)

\* the body of the row loop raises: q[key] of a column the header lacks,
\* escape_sql_string of None, int() of a value that is no integer
QuizSqlRowRaises(q) ==
    \/ Header \ DOMAIN q # {}
    \/ IsNone(q["question"])
    \/ ~IsDigitString(q["correct_answer"])
    \/ IsNone(q["explanation"])
    \/ ~IsDigitString(q["order_index"])

\* the values the row loop interpolates into one VALUES tuple, column by column,
\* each with the quotes the f-string puts around it
QuizSqlValue(q) ==
    LET q_id == IF IsNone(q["question_id"]) \/ q["question_id"].v = <<>>
                THEN <<"N", "U", "L", "L">>
                ELSE q["question_id"].v
    IN  [x \in Header |->
            CASE x = "id" -> <<"'">> \o PyStr(q["id"]) \o <<"'">>
              [] x = "quiz_id" -> <<"'">> \o PyStr(q["quiz_id"]) \o <<"'">>
              [] x = "question_id" ->
                    IF q_id # <<"N", "U", "L", "L">> THEN <<"'">> \o q_id \o <<"'">>
                    ELSE <<"N", "U", "L", "L">>
              [] x = "question" -> <<"'">> \o quiz_escape_sql_string(q["question"].v) \o <<"'">>
              [] x = "options" -> <<"'">> \o PyStr(q["options"]) \o <<"'">>
              [] x = "correct_answer" -> StrOfNat(IntOfDigits(q["correct_answer"].v))
              [] x = "explanation" ->
                    <<"'">> \o quiz_escape_sql_string(q["explanation"].v) \o <<"'">>
              [] x = "order_index" -> StrOfNat(IntOfDigits(q["order_index"].v))
              [] x = "created_at" -> <<"'">> \o PyStr(q["created_at"]) \o <<"'">>]

sqlIdleVars == <<real_questions_by_category, sample_count, cat_idx, questions_to_use,
                 all_questions, uuid_next, arg, result>>

QuizSqlInit ==
    /\ script = "generate_quiz_import_sql"
    /\ pc = "open"
    /\ input \in QuizSqlFiles
    /\ real_questions_by_category = EmptyDict
    /\ sample_count = 0
    /\ cat_idx = 1
    /\ questions_to_use = <<>>
    /\ all_questions = <<>>
    /\ uuid_next = 0
    /\ outfile = NoFile
    /\ stdout = <<>>
    /\ arg = NoneV
    /\ result = NoneV
    /\ row_idx = 1
    /\ sql_rows = <<>>
    /\ exit_code = NoneV
    /\ handles = NoHandles

\* lines 22-26: open and read the CSV
QuizSqlOpen ==
    /\ script = "generate_quiz_import_sql" /\ pc = "open"
    /\ IF input.exists
       THEN /\ pc' = "rows"
            /\ stdout' = Append(stdout, <<"Processing ">> \o StrOfNat(Len(input.rows))
                                        \o <<" questions...">>)
       ELSE pc' = "except" /\ stdout' = stdout
    /\ UNCHANGED <<script, input, outfile, row_idx, sql_rows, exit_code, sqlIdleVars, handles>>

\* lines 67-85: one pass of the row loop
QuizSqlRow ==
    /\ script = "generate_quiz_import_sql" /\ pc = "rows"
    /\ row_idx <= Len(input.rows)
    /\ IF QuizSqlRowRaises(input.rows[row_idx])
       THEN pc' = "except" /\ UNCHANGED <<row_idx, sql_rows>>
       ELSE /\ sql_rows' = Append(sql_rows,
                                  [value |-> QuizSqlValue(input.rows[row_idx]),
                                   comma |-> row_idx - 1 < Len(input.rows) - 1])
            /\ row_idx' = row_idx + 1
            /\ pc' = "rows"
    /\ UNCHANGED <<script, input, outfile, stdout, exit_code, sqlIdleVars, handles>>

\* lines 87-119: write the migration file and print what was done
QuizSqlWrite ==
    /\ script = "generate_quiz_import_sql" /\ pc = "rows"
    /\ row_idx > Len(input.rows)
    /\ outfile' = [written |-> TRUE, rows |-> sql_rows]
    /\ stdout' = stdout \o
           << <<"Generated SQL migration with ">> \o StrOfNat(Len(input.rows))
                  \o <<" questions">>,
              <<"Output: ", "supabase\\migrations\\006_import_quiz_data.sql">> >>
    /\ pc' = "done"
    /\ exit_code' = IntV(0)
    /\ UNCHANGED <<script, input, row_idx, sql_rows, sqlIdleVars, handles>>

\* the handler printing the message without ending the process
QuizSqlExcept_no_exit ==
    /\ script = "generate_quiz_import_sql" /\ pc = "except"
    /\ stdout' = Append(stdout, <<"stderr", "Error: ">>)
    /\ exit_code' = IntV(0)
    /\ pc' = "done"
    /\ UNCHANGED <<script, input, outfile, row_idx, sql_rows, sqlIdleVars, handles>>

\* lines 124-126: the handler of any exception of generate_sql
QuizSqlExcept ==
    /\ script = "generate_quiz_import_sql" /\ pc = "except"
    /\ stdout' = Append(stdout, <<"stderr", "Error: ">>)
    /\ exit_code' = IntV(1)
    /\ pc' = "exited"
    /\ UNCHANGED <<script, input, outfile, row_idx, sql_rows, sqlIdleVars, handles>>

QuizSqlNext == QuizSqlOpen \/ QuizSqlRow \/ QuizSqlWrite \/ QuizSqlExcept

SpecQuizSql == QuizSqlInit /\ [][QuizSqlNext]_vars

\* the columns of quiz_questions whose value stands between single quotes
QuotedColumns == {"id", "quiz_id", "question_id", "question", "options", "explanation",
                  "created_at"}

\* C5: every CSV value generate_sql puts between single quotes has each of its
\* single quotes doubled.
C5_QuotedValuesEscaped ==
    script = "generate_quiz_import_sql" =>
        \A k \in 1..Len(sql_rows) : \A f \in QuotedColumns :
            LET x == sql_rows[k].value[f]
                csv == input.rows[k][f]
            IN  x[1] = "'" => QuotedWithDoubling(x, PyStr(csv))

\* generate_sql raises on the input: the file is missing or a row cannot be
\* converted
QuizSqlFails ==
    ~input.exists \/ \E i \in 1..Len(input.rows) : QuizSqlRowRaises(input.rows[i])

\* C20: an exception raised inside generate_sql is caught at the top level, its
\* message is printed and the process exits with status 1; the failing run never
\* creates or modifies the migration file and never reports success.
C20_ExceptionIsFatal ==
    (script = "generate_quiz_import_sql" /\ QuizSqlFails) =>
        /\ outfile = NoFile
        /\ pc # "done"
        /\ exit_code \in {NoneV, IntV(1)}
        /\ \A i \in 1..Len(stdout) : stdout[i][1] # "Generated SQL migration with "
        /\ pc = "exited" =>
               (exit_code = IntV(1) /\ stdout[Len(stdout)] = <<"stderr", "Error: ">>)

\* the second row has a correct_answer that is no integer: the first row was
\* converted, the run has exited with status 1 and there is no migration file
C20_Witness ==
    /\ script = "generate_quiz_import_sql" /\ pc = "exited"
    /\ input.exists /\ Len(input.rows) = 2
    /\ ~QuizSqlRowRaises(input.rows[1])
    /\ input.rows[2] = [PlainQuizRow EXCEPT !["correct_answer"] = Str(<<"x">>)]
    /\ Len(sql_rows) = 1
    /\ exit_code = IntV(1)
    /\ outfile = NoFile

----------------------------------------------------------------------------
(* generate_verses_hadiths_import: generate_verses_sql, generate_hadiths_sql, main *)

\* the largest number of rows of the verses CSV and of the hadiths CSV
MaxVerseRows == 1

\* datetime.now().isoformat()
NowText == Str(<<"now">>)

VerseColumns == {"id", "arabic", "translation", "reference", "surah_number",
                 "verse_number", "created_at"}

\* the header rows a verses CSV may have: every column, the optional columns
\* left out, a required column left out
VerseHeaders ==
    {VerseColumns,
     VerseColumns \ {"surah_number", "verse_number", "created_at"},
     VerseColumns \ {"reference"}}

PlainVerse ==
    [x \in VerseColumns |->
        CASE x = "surah_number" -> Str(<<"2">>)
          [] x = "verse_number" -> Str(<<"2", "5", "5">>)
          [] OTHER -> Str(<<"a">>)]

\* the lines of a verses CSV, on the full header
VerseLines ==
    {PlainVerse,
     [PlainVerse EXCEPT !["translation"] = Str(QuotedText)],
     [PlainVerse EXCEPT !["surah_number"] = Str(<<"1", ")", ";", "-", "-">>)],
     [PlainVerse EXCEPT !["verse_number"] = Str(<<>>), !["created_at"] = Str(<<>>)],
     [PlainVerse EXCEPT !["surah_number"] = NoneV, !["verse_number"] = NoneV,
                        !["created_at"] = NoneV]}

HadithColumns == {"id", "arabic", "translation", "reference", "collection",
                  "book_number", "hadith_number", "created_at"}

HadithHeaders ==
    {HadithColumns,
     HadithColumns \ {"arabic", "collection", "book_number", "hadith_number", "created_at"},
     HadithColumns \ {"translation"}}

PlainHadith ==
    [x \in HadithColumns |->
        CASE x = "book_number" -> Str(<<"1">>)
          [] x = "hadith_number" -> Str(<<"7">>)
          [] OTHER -> Str(<<"a">>)]

\* the lines of a hadiths CSV, on the full header
HadithLines ==
    {PlainHadith,
     [PlainHadith EXCEPT !["arabic"] = Str(<<>>), !["collection"] = Str(QuotedText)],
     [PlainHadith EXCEPT !["book_number"] = Str(<<>>), !["hadith_number"] = Str(<<"x", "'">>)],
     [PlainHadith EXCEPT !["created_at"] = Str(<<>>)],
     [PlainHadith EXCEPT !["collection"] = NoneV, !["book_number"] = NoneV,
                         !["hadith_number"] = NoneV, !["created_at"] = NoneV]}

\* the files with up to n lines drawn from `lines`, under each of the headers
FilesOver(headers, lines, n) ==
    {MissingFile} \cup
    {File([i \in 1..Len(rows) |-> [x \in h |-> rows[i][x]]]) :
        h \in headers, rows \in UNION {[1..k -> lines] : k \in 0..n}}

\* row[key] raises KeyError
Missing(row, key) == key \notin DOMAIN row

\* the loop body of generate_verses_sql raises
VerseRowRaises(row) ==
    \E key \in {"id", "arabic", "translation", "reference"} : Missing(row, key)

\* the values generate_verses_sql interpolates for one row
VerseInsert(row) ==
    [table |-> "quran_verses",
     values |->
        [x \in VerseColumns |->
            CASE x = "surah_number" -> PyStr(Get(row, "surah_number", Str(<<"N", "U", "L", "L">>)))
              [] x = "verse_number" -> PyStr(Get(row, "verse_number", Str(<<"N", "U", "L", "L">>)))
              [] x = "created_at" -> verses_escape_sql_string(Get(row, "created_at", NowText))
              [] OTHER -> verses_escape_sql_string(row[x])]]

\* row.get(key): the value is falsy
Falsy(row, key) ==
    key \notin DOMAIN row \/ IsNone(row[key]) \/ row[key].v = <<>>

\* the loop body of generate_hadiths_sql raises
HadithRowRaises(row) ==
    \E key \in {"id", "translation", "reference"} : Missing(row, key)

\* the values generate_hadiths_sql interpolates for one row
HadithInsert(row) ==
    LET optional(key) == IF Falsy(row, key) THEN <<"N", "U", "L", "L">>
                         ELSE verses_escape_sql_string(Get(row, key, Str(<<>>)))
        arabic == optional("arabic")
    IN  [table |-> "hadiths",
         values |->
            [x \in HadithColumns |->
                CASE x = "arabic" -> IF arabic = <<"'", "'">> THEN <<"N", "U", "L", "L">>
                                     ELSE arabic
                  [] x \in {"collection", "book_number", "hadith_number"} -> optional(x)
                  [] x = "created_at" ->
                        verses_escape_sql_string(Get(row, "created_at", NowText))
                  [] OTHER -> verses_escape_sql_string(row[x])]]

\* generate_verses_sql on a file: the inserts, or raised (missing file, KeyError)
generate_verses_sql(file) ==
    IF ~file.exists \/ \E i \in 1..Len(file.rows) : VerseRowRaises(file.rows[i])
    THEN [raised |-> TRUE, inserts |-> <<>>]
    ELSE [raised |-> FALSE,
          inserts |-> [i \in 1..Len(file.rows) |-> VerseInsert(file.rows[i])]]

\* generate_hadiths_sql on a file: the inserts, or raised
generate_hadiths_sql(file) ==
    IF ~file.exists \/ \E i \in 1..Len(file.rows) : HadithRowRaises(file.rows[i])
    THEN [raised |-> TRUE, inserts |-> <<>>]
    ELSE [raised |-> FALSE,
          inserts |-> [i \in 1..Len(file.rows) |-> HadithInsert(file.rows[i])]]

VersesInit ==
    /\ script = "generate_verses_hadiths_import"
    /\ pc = "start"
    /\ input \in [verses : FilesOver(VerseHeaders, VerseLines, MaxVerseRows),
                  hadiths : FilesOver(HadithHeaders, HadithLines, MaxVerseRows)]
    /\ real_questions_by_category = EmptyDict
    /\ sample_count = 0
    /\ cat_idx = 1
    /\ questions_to_use = <<>>
    /\ all_questions = <<>>
    /\ uuid_next = 0
    /\ outfile = NoFile
    /\ stdout = <<>>
    /\ arg = NoneV
    /\ result = NoneV
    /\ row_idx = 1
    /\ sql_rows = <<>>
    /\ exit_code = NoneV
    /\ handles = NoHandles

\* lines 74-143: the banners, the CREATE TABLE statements, the policies
VersesPrologue ==
    /\ script = "generate_verses_hadiths_import" /\ pc = "start"
    /\ stdout' = stdout \o << <<"-- IMPORT QURAN VERSES AND HADITHS">>,
                              <<"-- 1. CREATE QURAN_VERSES TABLE">>,
                              <<"-- 2. CREATE HADITHS TABLE">>,
                              <<"-- 3. ENABLE RLS AND CREATE POLICIES">>,
                              <<"-- 4. IMPORT QURAN VERSES">> >>
    /\ pc' = "verses"
    /\ UNCHANGED <<script, input, outfile, row_idx, sql_rows, exit_code, sqlIdleVars, handles>>

\* lines 144-150: the verses import and its exception handler
VersesImport ==
    /\ script = "generate_verses_hadiths_import" /\ pc = "verses"
    /\ LET verses == generate_verses_sql(input.verses)
       IN  IF verses.raised
           THEN /\ stdout' = Append(stdout, <<"stderr", "-- ERROR importing verses: ">>)
                /\ sql_rows' = sql_rows
           ELSE /\ stdout' = stdout \o
                       [i \in 1..Len(verses.inserts) |-> <<"INSERT INTO public.quran_verses">>]
                       \o << <<"-- Imported ">> \o StrOfNat(Len(verses.inserts))
                                 \o <<" verses">> >>
                /\ sql_rows' = sql_rows \o verses.inserts
    /\ pc' = "hadiths"
    /\ UNCHANGED <<script, input, outfile, row_idx, exit_code, sqlIdleVars, handles>>

\* lines 153-162: the hadiths import and its exception handler
HadithsImport ==
    /\ script = "generate_verses_hadiths_import" /\ pc = "hadiths"
    /\ LET hadiths == generate_hadiths_sql(input.hadiths)
       IN  IF hadiths.raised
           THEN /\ stdout' = stdout \o << <<"-- 5. IMPORT HADITHS">>,
                                          <<"stderr", "-- ERROR importing hadiths: ">> >>
                /\ sql_rows' = sql_rows
           ELSE /\ stdout' = stdout \o << <<"-- 5. IMPORT HADITHS">> >> \o
                       [i \in 1..Len(hadiths.inserts) |-> <<"INSERT INTO public.hadiths">>]
                       \o << <<"-- Imported ">> \o StrOfNat(Len(hadiths.inserts))
                                 \o <<" hadiths">> >>
                /\ sql_rows' = sql_rows \o hadiths.inserts
    /\ pc' = "verify"
    /\ UNCHANGED <<script, input, outfile, row_idx, exit_code, sqlIdleVars, handles>>

\* lines 165-172: the verification block; main returns
VersesVerification ==
    /\ script = "generate_verses_hadiths_import" /\ pc = "verify"
    /\ stdout' = stdout \o << <<"-- 6. VERIFICATION">>,
                              <<"SELECT 'quran_verses' as table_name, COUNT(*)">>,
                              <<"SELECT 'hadiths' as table_name, COUNT(*)">> >>
    /\ pc' = "done"
    /\ exit_code' = IntV(0)
    /\ UNCHANGED <<script, input, outfile, row_idx, sql_rows, sqlIdleVars, handles>>

VersesNext == VersesPrologue \/ VersesImport \/ HadithsImport \/ VersesVerification

SpecVerses == VersesInit /\ [][VersesNext]_vars

\* x is what escape_sql_string returns for some string
EscapedLiteral(x) ==
    /\ Len(x) >= 2 /\ x[1] = "'" /\ x[Len(x)] = "'"
    /\ LET body == SubSeq(x, 2, Len(x) - 1)
       IN  DoubleQuotes(Undouble(body)) = body

\* C6: every value generate_verses_sql and generate_hadiths_sql interpolate into an
\* INSERT is NULL, a literal escape_sql_string produced, or an integer.
C6_NoRawValues ==
    script = "generate_verses_hadiths_import" =>
        \A k \in 1..Len(sql_rows) : \A f \in DOMAIN sql_rows[k].values :
            LET x == sql_rows[k].values[f]
            IN  \/ x = <<"N", "U", "L", "L">>
                \/ EscapedLiteral(x)
                \/ IsDigitString(Str(x))

----------------------------------------------------------------------------
(* generate_lectures_recitations_import.parse_duration *)

\* a character for which str.isdigit() is true and which int() rejects, such as
\* SUPERSCRIPT TWO
Sup2 == "sup2"

\* str.isdigit(): one or more characters, each of them a digit character
IsDigit(s) ==
    s # <<>> /\ \A i \in 1..Len(s) : s[i] = Sup2 \/ \E d \in 1..10 : Digits[d] = s[i]

\* int(s) raises ValueError on a string for which s.isdigit() holds
IntRaises(s) == \E i \in 1..Len(s) : s[i] = Sup2

\* str.strip() from the left
RECURSIVE LStrip(_)
LStrip(s) ==
    IF s # <<>> /\ Head(s) = " " THEN LStrip(Tail(s)) ELSE s

\* str.strip() from the right
RECURSIVE RStrip(_)
RStrip(s) ==
    IF s # <<>> /\ s[Len(s)] = " " THEN RStrip(SubSeq(s, 1, Len(s) - 1)) ELSE s

\* str.strip()
Strip(s) == RStrip(LStrip(s))

\* c in s, for a character c
HasChar(s, c) == \E i \in 1..Len(s) : s[i] = c

\* s.split(sep) for a one-character separator: the list of the parts
RECURSIVE Split(_, _)
Split(s, sep) ==
    IF ~HasChar(s, sep) THEN <<s>>
    ELSE LET i == CHOOSE j \in 1..Len(s) :
                      s[j] = sep /\ \A k \in 1..(j - 1) : s[k] # sep
         IN  <<SubSeq(s, 1, i - 1)>> \o Split(SubSeq(s, i + 1, Len(s)), sep)

\* f"'{total_seconds // 60}:{total_seconds % 60}'"
MinutesSeconds(total_seconds) ==
    <<"'">> \o StrOfNat(total_seconds \div 60) \o <<":">>
            \o StrOfNat(total_seconds % 60) \o <<"'">>

\* what a call gives: a returned text, or an exception
Returned(text) == [raised |-> FALSE, text |-> text]
Raised == [raised |-> TRUE, text |-> <<>>]

\* `int(part) if part.isdigit() else 0` raises
PartRaises(part) == IsDigit(part) /\ IntRaises(part)

\* `int(part) if part.isdigit() else 0`
PartValue(part) == IF IsDigit(part) THEN IntOfDigits(part) ELSE 0

\* a branch of parse_duration that did not return
FellThrough == [matched |-> FALSE, raised |-> FALSE, text |-> <<>>]

\* lines 28-42, on the stripped text: the MM:SS and HH:MM:SS forms
parse_duration_colon(s) ==
    LET parts == Split(s, ":")
    IN  IF ~HasChar(s, ":") \/ Len(parts) \notin {2, 3} THEN FellThrough
        ELSE IF \E i \in 1..Len(parts) : PartRaises(parts[i])
        THEN [matched |-> TRUE, raised |-> TRUE, text |-> <<>>]
        ELSE LET total_seconds ==
                     IF Len(parts) = 2
                     THEN PartValue(parts[1]) * 60 + PartValue(parts[2])
                     ELSE PartValue(parts[1]) * 3600 + PartValue(parts[2]) * 60
                          + PartValue(parts[3])
             IN  [matched |-> TRUE, raised |-> FALSE, text |-> MinutesSeconds(total_seconds)]

\* lines 45-62, on the stripped text: the "1h 30m" form
parse_duration_units(s) ==
    LET lower == Lower(s)
        has_h == HasChar(lower, "h")
        hour_match == Strip(Split(lower, "h")[1])
        has_m == HasChar(lower, "m")
        before_m == Split(lower, "m")[1]
        after_h == Split(before_m, "h")
        minute_part == IF HasChar(before_m, "h") THEN Strip(after_h[Len(after_h)])
                       ELSE before_m
    IN  IF (has_h /\ PartRaises(hour_match)) \/ (has_m /\ PartRaises(minute_part))
        THEN [matched |-> TRUE, raised |-> TRUE, text |-> <<>>]
        ELSE LET hours == IF has_h THEN PartValue(hour_match) ELSE 0
                 minutes == IF has_m THEN PartValue(minute_part) ELSE 0
             IN  IF hours > 0 \/ minutes > 0
                 THEN [matched |-> TRUE, raised |-> FALSE,
                       text |-> MinutesSeconds(hours * 3600 + minutes * 60)]
                 ELSE FellThrough

\* parse_duration_number reading a bare number as seconds
parse_duration_number_as_seconds(s) ==
    IF IsDigit(s)
    THEN [matched |-> TRUE, raised |-> FALSE, text |-> <<"'", "0", ":">> \o s \o <<"'">>]
    ELSE FellThrough

\* lines 65-66, on the stripped text: a bare number is a number of minutes
parse_duration_number(s) ==
    IF IsDigit(s)
    THEN [matched |-> TRUE, raised |-> FALSE, text |-> <<"'">> \o s \o <<":", "0", "0", "'">>]
    ELSE FellThrough

\* parse_duration(duration_str): the text returned, or raised
parse_duration(duration_str) ==
    IF IsNone(duration_str) \/ duration_str.v = <<>> THEN Returned(<<"N", "U", "L", "L">>)
    ELSE LET s == Strip(PyStr(duration_str))
             colon == parse_duration_colon(s)
             units == parse_duration_units(s)
             number == parse_duration_number(s)
         IN  IF colon.matched
             THEN (IF colon.raised THEN Raised ELSE Returned(colon.text))
             ELSE IF units.matched
             THEN (IF units.raised THEN Raised ELSE Returned(units.text))
             ELSE IF number.matched THEN Returned(number.text)
             ELSE Returned(escape_sql_string(Str(s)))

\* the longest duration text drawn from DurationAlphabet
MaxDur == 4

DurationAlphabet == {"0", "6", ":", "h", "m", " ", Sup2}

\* duration texts named in the docstring and the specification, and longer ones
DurationExamples ==
    { <<"1", "h", " ", "3", "0", "m">>, <<"4", "5", "m">>, <<"1", "3", ":", "2", "0">>,
      <<"1", ":", "0", "5">>, <<"0", ":", "7", "5">>, <<"9", "0">>,
      <<"1", ":", "3", "0", ":", "0", "5">>, <<"1", ":", "2", ":", "3", ":", "4">>,
      <<"0", "h", " ", "0", "m">>, <<"2", "H", " ", "1", "5", "M">>, <<"1", "h", "3", "0", "m">>,
      <<"1", "h", ":", "3", "0", "m">>, <<" ", "1", "2", ":", "3", "0", " ">>,
      <<"o", "'", "c", "l", "o", "c", "k">>, <<"l", "o", "n", "g">>,
      <<"1", "0", " ", "m", "i", "n">>, <<"1", " ", "h", "o", "u", "r">> }

DurationInputs ==
    {NoneV} \cup {Str(s) : s \in DurationExamples}
    \cup {Str(s) : s \in UNION {[1..n -> DurationAlphabet] : n \in 0..MaxDur}}

DurationInit ==
    /\ script = "parse_duration"
    /\ pc = "call"
    /\ arg \in DurationInputs
    /\ result = NoneV
    /\ PipelineIdle

\* parse_duration(duration_str)
ParseDurationCall ==
    /\ script = "parse_duration" /\ pc = "call"
    /\ result' = parse_duration(arg)
    /\ pc' = "returned"
    /\ UNCHANGED <<script, arg, pipelineVars>>

SpecDuration == DurationInit /\ [][ParseDurationCall]_vars

\* parse_duration has returned or raised on a str
DurationDone == script = "parse_duration" /\ pc = "returned"

\* s is one or more of the decimal digits 0..9
AllDecimal(s) == IsDigitString(Str(s))

\* the integer value of a segment that is all decimal digits, 0 for any other
SegmentValue(s) == IF AllDecimal(s) THEN IntOfDigits(s) ELSE 0

\* text is 'M:S' between single quotes, M and S decimal numbers
IsMinSec(text) ==
    /\ Len(text) >= 5 /\ text[1] = "'" /\ text[Len(text)] = "'"
    /\ LET inner == Split(SubSeq(text, 2, Len(text) - 1), ":")
       IN  Len(inner) = 2 /\ AllDecimal(inner[1]) /\ AllDecimal(inner[2])

\* the number of seconds a text 'M:S' denotes
SecondsOf(text) ==
    LET inner == Split(SubSeq(text, 2, Len(text) - 1), ":")
    IN  IntOfDigits(inner[1]) * 60 + IntOfDigits(inner[2])

\* the S of a text 'M:S'
SecondsField(text) ==
    IntOfDigits(Split(SubSeq(text, 2, Len(text) - 1), ":")[2])

\* the input has a colon and 2 or 3 segments between colons
ColonShape(s) == HasChar(s, ":") /\ Len(Split(s, ":")) \in {2, 3}

\* C12: an input with a colon and 2 (MM:SS) or 3 (HH:MM:SS) segments gives 'M:S'
\* with M*60 + S = hours*3600 + minutes*60 + seconds and 0 <= S <= 59, each
\* all-digit segment counting as its integer value and any other segment as 0.
C12_ColonForm ==
    (DurationDone /\ IsStr(arg) /\ ColonShape(arg.v)) =>
        LET parts == Split(arg.v, ":")
            total == IF Len(parts) = 2
                     THEN SegmentValue(parts[1]) * 60 + SegmentValue(parts[2])
                     ELSE SegmentValue(parts[1]) * 3600 + SegmentValue(parts[2]) * 60
                          + SegmentValue(parts[3])
        IN  /\ ~result.raised
            /\ IsMinSec(result.text)
            /\ SecondsOf(result.text) = total
            /\ SecondsField(result.text) <= 59

\* the input is '<H>h <M>m', '<H>h' or '<M>m' with H and M decimal integers
UnitsShape(s) ==
    \/ \E i \in 1..Len(s) :
           /\ s[i] = "h" /\ AllDecimal(SubSeq(s, 1, i - 1))
           /\ \/ i = Len(s)
              \/ /\ i + 2 < Len(s) /\ s[i + 1] = " " /\ s[Len(s)] = "m"
                 /\ AllDecimal(SubSeq(s, i + 2, Len(s) - 1))
    \/ s # <<>> /\ s[Len(s)] = "m" /\ AllDecimal(SubSeq(s, 1, Len(s) - 1))

\* H*3600 + M*60 of an input of UnitsShape, a component not present being 0
UnitsSeconds(s) ==
    LET h_parts == Split(s, "h")
        hours == IF HasChar(s, "h") THEN IntOfDigits(h_parts[1]) ELSE 0
        rest == Strip(h_parts[Len(h_parts)])
        minutes == IF HasChar(s, "m") THEN IntOfDigits(SubSeq(rest, 1, Len(rest) - 1)) ELSE 0
    IN  hours * 3600 + minutes * 60

\* C13: a colon-free input '<H>h <M>m', '<H>h' or '<M>m' gives the minutes:seconds
\* form of exactly H*3600 + M*60 seconds.
C13_UnitsForm ==
    (DurationDone /\ IsStr(arg) /\ UnitsShape(arg.v)) =>
        /\ ~result.raised
        /\ IsMinSec(result.text)
        /\ SecondsOf(result.text) = UnitsSeconds(arg.v)

\* C14: an input of decimal digits only is a number of whole minutes: the result
\* read as minutes:seconds denotes 60 times the input integer.
C14_BareNumberIsMinutes ==
    (DurationDone /\ IsStr(arg) /\ AllDecimal(arg.v)) =>
        /\ ~result.raised
        /\ IsMinSec(result.text)
        /\ SecondsOf(result.text) = 60 * IntOfDigits(arg.v)

\* '90' gives '90:00', 5400 seconds
C14_Witness ==
    /\ DurationDone
    /\ arg = Str(<<"9", "0">>)
    /\ result = Returned(<<"'", "9", "0", ":", "0", "0", "'">>)
    /\ SecondsOf(result.text) = 5400

\* C15: None and '' give the unquoted NULL; any other input gives a single-quoted
\* literal and never an exception, and an input of none of the three shapes
\* gives the escaped literal of the input.
C15_NullOrLiteral ==
    DurationDone =>
        IF IsNone(arg) \/ arg.v = <<>>
        THEN result = Returned(<<"N", "U", "L", "L">>)
        ELSE /\ ~result.raised
             /\ Len(result.text) >= 2
             /\ result.text[1] = "'" /\ result.text[Len(result.text)] = "'"
             /\ (~ColonShape(arg.v) /\ ~UnitsShape(arg.v) /\ ~AllDecimal(arg.v))
                    => QuotedWithDoubling(result.text, arg.v)

----------------------------------------------------------------------------
(* generate_lectures_recitations_import: the two importers and main.  The   *)
(* importers print into the migration file, which main has put in the place *)
(* of sys.stdout; `attribution` is the column speaker of the lectures CSV   *)
(* and reciter of the recitations CSV.                                      *)

\* the largest number of rows of the lectures CSV and of the recitations CSV
MaxLectureRows == 1

LectureColumns(attribution) ==
    {"id", "category_id", "title", attribution, "duration", "video_url", "thumbnail_url",
     "order_index", "created_at", "updated_at"}

\* the header rows: every column, or the optional columns left out
LectureHeaders(attribution) ==
    {LectureColumns(attribution), {"id", "category_id", "title", "video_url"}}

\* the lines of a lectures or recitations CSV, on the full header: a plain one,
\* one with empty optional fields, one with quotes, one that ends after
\* video_url, one whose duration int() rejects
LectureLines(attribution) ==
    LET plain == [x \in LectureColumns(attribution) |->
                     CASE x = "duration" -> Str(<<"1", "h", " ", "3", "0", "m">>)
                       [] x = "order_index" -> Str(<<"3">>)
                       [] OTHER -> Str(<<"a">>)]
    IN  {plain,
         [plain EXCEPT ![attribution] = Str(<<>>), !["thumbnail_url"] = Str(<<>>),
                       !["created_at"] = Str(<<>>), !["duration"] = Str(<<>>),
                       !["order_index"] = Str(<<"x">>)],
         [plain EXCEPT ![attribution] = Str(OReilly), !["updated_at"] = Str(<<>>),
                       !["duration"] = Str(<<"1", "3", ":", "2", "0">>),
                       !["order_index"] = Str(<<Sup2>>)],
         [plain EXCEPT !["thumbnail_url"] = NoneV, !["order_index"] = NoneV,
                       !["created_at"] = NoneV, !["updated_at"] = NoneV],
         [plain EXCEPT !["duration"] = Str(<<Sup2, ":", "0", "5">>)]}

\* the loop body of an importer raises: parse_duration does, or order_index is
\* None and has no isdigit
LectureRowRaises(row) ==
    \/ parse_duration(Get(row, "duration", Str(<<>>))).raised
    \/ IsNone(Get(row, "order_index", Str(<<"0">>)))

\* LectureTuple with escape_sql_string applied to an optional field whatever its
\* value
LectureTuple_empty_literal(row, attribution) ==
    LET order_index == Get(row, "order_index", Str(<<"0">>))
    IN  [x \in LectureColumns(attribution) |->
            CASE x = "duration" -> parse_duration(Get(row, "duration", Str(<<>>))).text
              [] x = "order_index" -> IF IsDigit(order_index.v) THEN order_index.v ELSE <<"0">>
              [] x \in {"created_at", "updated_at"} ->
                    IF Falsy(row, x) THEN <<"N", "O", "W", "(", ")">>
                    ELSE escape_sql_string(Get(row, x, Str(<<>>)))
              [] OTHER -> escape_sql_string(Get(row, x, Str(<<>>)))]

\* lines 89-102 and 141-154: the values interpolated into the tuple of one row
LectureTuple(row, attribution) ==
    LET optional(key, absent) ==
            IF Falsy(row, key) THEN absent ELSE escape_sql_string(Get(row, key, Str(<<>>)))
        order_index == Get(row, "order_index", Str(<<"0">>))
    IN  [x \in LectureColumns(attribution) |->
            CASE x \in {attribution, "thumbnail_url"} -> optional(x, <<"N", "U", "L", "L">>)
              [] x = "duration" -> parse_duration(Get(row, "duration", Str(<<>>))).text
              [] x = "order_index" -> IF IsDigit(order_index.v) THEN order_index.v ELSE <<"0">>
              [] x \in {"created_at", "updated_at"} -> optional(x, <<"N", "O", "W", "(", ")">>)
              [] OTHER -> escape_sql_string(Get(row, x, Str(<<>>)))]

\* what an importer does on a file: the lines it prints, the tuples among them,
\* and whether it ends in sys.exit(1)
ImportOf(file, path, table, attribution) ==
    LET banner == << <<"-- IMPORT ", table, " FROM CSV">>,
                     <<"INSERT INTO public.", table>>, <<"VALUES">> >>
    IN  IF ~file.exists
        THEN [exit |-> TRUE, tuples |-> <<>>,
              lines |-> Append(banner, <<"-- ERROR: File not found: ", path>>)]
        ELSE IF \E i \in 1..Len(file.rows) : LectureRowRaises(file.rows[i])
        THEN [exit |-> TRUE, tuples |-> <<>>, lines |-> Append(banner, <<"-- ERROR: ">>)]
        ELSE [exit |-> FALSE,
              tuples |-> [i \in 1..Len(file.rows) |->
                             [table |-> table,
                              values |-> LectureTuple(file.rows[i], attribution)]],
              lines |-> banner \o [i \in 1..Len(file.rows) |-> <<"  (", table, " row)">>]
                        \o << <<"ON CONFLICT (id) DO NOTHING;">>,
                              <<"-- Total: ">> \o StrOfNat(Len(file.rows))
                                  \o <<" ", table, " imported">> >>]

\* generate_lectures_import returning after the error line of a missing file
generate_lectures_import_no_exit(file) ==
    [ImportOf(file, "lectures_csv", "lectures", "speaker") EXCEPT !.exit = FALSE]

\* generate_lectures_import(lectures_csv_path)
generate_lectures_import(file) == ImportOf(file, "lectures_csv", "lectures", "speaker")

\* generate_recitations_import(recitations_csv_path)
generate_recitations_import(file) ==
    ImportOf(file, "recitations_csv", "recitations", "reciter")

\* lines 86 and 138: with open(path) as f: the file object of an input file
\* that exists, closed when the block is left, by an exception too
WithOpen(file) == IF file.exists THEN "closed" ELSE "unopened"

\* Unwind without the finally clause of main
Unwind_no_finally(h) == [h EXCEPT !.output = "closed"]

\* lines 187-194: the way out of the try statement and of the with block of
\* main, by falling off the end or by SystemExit: the finally clause puts
\* sys.stdout back and the with statement closes the migration file
Unwind(h) == [h EXCEPT !.sys_stdout = "console", !.output = "closed"]

LecturesInit ==
    /\ script = "generate_lectures_recitations_import"
    /\ pc = "start"
    /\ input \in [lectures : FilesOver(LectureHeaders("speaker"), LectureLines("speaker"),
                                       MaxLectureRows),
                  recitations : FilesOver(LectureHeaders("reciter"), LectureLines("reciter"),
                                          MaxLectureRows)]
    /\ real_questions_by_category = EmptyDict
    /\ sample_count = 0
    /\ cat_idx = 1
    /\ questions_to_use = <<>>
    /\ all_questions = <<>>
    /\ uuid_next = 0
    /\ outfile = NoFile
    /\ stdout = <<>>
    /\ arg = NoneV
    /\ result = NoneV
    /\ row_idx = 1
    /\ sql_rows = <<>>
    /\ exit_code = NoneV
    /\ handles = NoHandles

\* lines 186-189: main opens the migration file for writing and puts it in the
\* place of sys.stdout
LecturesOpen ==
    /\ script = "generate_lectures_recitations_import" /\ pc = "start"
    /\ outfile' = [written |-> TRUE, rows |-> <<>>]
    /\ handles' = [handles EXCEPT !.output = "open", !.sys_stdout = "file"]
    /\ pc' = "lectures"
    /\ UNCHANGED <<script, input, stdout, row_idx, sql_rows, exit_code, sqlIdleVars>>

\* line 191: generate_lectures_import; sys.exit(1) leaves through the finally
\* clause and ends the process
LecturesImport ==
    /\ script = "generate_lectures_recitations_import" /\ pc = "lectures"
    /\ LET r == generate_lectures_import(input.lectures)
           h == [handles EXCEPT !.lectures = WithOpen(input.lectures)]
       IN  /\ outfile' = [outfile EXCEPT !.rows = @ \o r.lines]
           /\ sql_rows' = sql_rows \o r.tuples
           /\ IF r.exit THEN pc' = "exited" /\ exit_code' = IntV(1) /\ handles' = Unwind(h)
              ELSE pc' = "recitations" /\ exit_code' = exit_code /\ handles' = h
    /\ UNCHANGED <<script, input, stdout, row_idx, sqlIdleVars>>

\* line 192: generate_recitations_import
RecitationsImport ==
    /\ script = "generate_lectures_recitations_import" /\ pc = "recitations"
    /\ LET r == generate_recitations_import(input.recitations)
           h == [handles EXCEPT !.recitations = WithOpen(input.recitations)]
       IN  /\ outfile' = [outfile EXCEPT !.rows = @ \o r.lines]
           /\ sql_rows' = sql_rows \o r.tuples
           /\ IF r.exit THEN pc' = "exited" /\ exit_code' = IntV(1) /\ handles' = Unwind(h)
              ELSE pc' = "generated" /\ exit_code' = exit_code /\ handles' = h
    /\ UNCHANGED <<script, input, stdout, row_idx, sqlIdleVars>>

\* lines 194-213: sys.stdout is restored, the success message and the
\* verification queries go to the console; main returns
LecturesGenerated ==
    /\ script = "generate_lectures_recitations_import" /\ pc = "generated"
    /\ stdout' = stdout \o
           << <<"SQL migration generated: ",
                "supabase/migrations/009_import_lectures_recitations.sql">>,
              <<"-- VERIFICATION QUERIES">>,
              <<"SELECT COUNT(*) as total_lectures FROM public.lectures;">>,
              <<"SELECT COUNT(*) as total_recitations FROM public.recitations;">> >>
    /\ handles' = Unwind(handles)
    /\ pc' = "done"
    /\ exit_code' = IntV(0)
    /\ UNCHANGED <<script, input, outfile, row_idx, sql_rows, sqlIdleVars>>

LecturesNext == LecturesOpen \/ LecturesImport \/ RecitationsImport \/ LecturesGenerated

SpecLectures == LecturesInit /\ [][LecturesNext]_vars

\* both SQL importers, each on every input it is given
ImportersInit == LecturesInit \/ VersesInit

ImportersNext == LecturesNext \/ VersesNext

SpecImporters == ImportersInit /\ [][ImportersNext]_vars

\* the CSV row the k-th emitted tuple was made from: an importer emits the tuples
\* of a file in the order of its rows, and all of them or none
SourceRow(k) ==
    IF script = "generate_lectures_recitations_import"
    THEN (input.lectures.rows \o input.recitations.rows)[k]
    ELSE IF sql_rows[k].table = "quran_verses" THEN input.verses.rows[k]
    ELSE LET verses == Cardinality({j \in 1..Len(sql_rows) :
                                       sql_rows[j].table = "quran_verses"})
         IN  input.hadiths.rows[k - verses]

\* the optional columns of the three tables with optional text fields
OptionalColumns(table) ==
    CASE table = "lectures" -> {"speaker", "thumbnail_url"}
      [] table = "recitations" -> {"reciter", "thumbnail_url"}
      [] table = "hadiths" -> {"arabic", "collection", "book_number", "hadith_number"}
      [] OTHER -> {}

\* C16: in the lectures, recitations and hadiths importers an optional field whose
\* CSV value is empty or missing is emitted as the keyword NULL, never as '', and
\* a non-empty value as its escape_sql_string literal.
C16_OptionalFieldsNull ==
    \A k \in 1..Len(sql_rows) : \A f \in OptionalColumns(sql_rows[k].table) :
        LET x == sql_rows[k].values[f]
        IN  /\ x # <<"'", "'">>
            /\ IF Falsy(SourceRow(k), f) THEN x = <<"N", "U", "L", "L">>
               ELSE QuotedWithDoubling(x, SourceRow(k)[f].v)

\* a lecture with an empty speaker gives NULL, a recitation by O'Reilly gives
\* 'O''Reilly', a hadith with an empty arabic text gives NULL
C16_Witness ==
    \/ /\ script = "generate_lectures_recitations_import" /\ Len(sql_rows) = 2
       /\ "speaker" \in DOMAIN input.lectures.rows[1]
       /\ input.lectures.rows[1]["speaker"] = Str(<<>>)
       /\ sql_rows[1].values["speaker"] = <<"N", "U", "L", "L">>
       /\ sql_rows[2].values["reciter"] = <<"'", "O", "'", "'", "R", "e", "i", "l", "l", "y", "'">>
    \/ /\ script = "generate_verses_hadiths_import"
       /\ \E k \in 1..Len(sql_rows) :
              /\ sql_rows[k].table = "hadiths"
              /\ "arabic" \in DOMAIN SourceRow(k) /\ SourceRow(k)["arabic"] = Str(<<>>)
              /\ sql_rows[k].values["arabic"] = <<"N", "U", "L", "L">>
              /\ sql_rows[k].values["collection"] = <<"'", "a", "'", "'", "b", "'">>

\* C17: in every tuple of the lectures/recitations and verses/hadiths importers a
\* created_at or updated_at whose CSV value is absent or empty is a 'now' marker
\* (NOW() or the current timestamp), and no timestamp is NULL or ''.
C17_TimestampsNeverNull ==
    \A k \in 1..Len(sql_rows) :
        \A f \in {"created_at", "updated_at"} \cap DOMAIN sql_rows[k].values :
            LET x == sql_rows[k].values[f]
            IN  /\ x # <<"N", "U", "L", "L">>
                /\ x # <<"'", "'">>
                /\ Falsy(SourceRow(k), f) =>
                       x \in {<<"N", "O", "W", "(", ")">>, escape_sql_string(NowText)}

C19_FailureIsTerminal ==
    script = "generate_verses_hadiths_import" =>
        \A i \in 1..Len(stdout) :
            stdout[i][1] = "stderr" => (i = Len(stdout) /\ exit_code # IntV(0))

----------------------------------------------------------------------------
(* generate_quiz_csv_questions and generate_complete_quiz_csv.  Neither     *)
(* reads an input: the questions are the literal lists of the two scripts,  *)
(* written as the bank questions above (the k-th is Bk / Ek with the        *)
(* correct_answer of the source; quran question 18 has an option with       *)
(* double quotes in it, as the source has at line 135).                     *)

\* the title of a category in QUIZ_CATEGORIES
QuizTitle(quiz_id) ==
    CASE quiz_id = "quran" -> "Quran Knowledge"
      [] quiz_id = "seerah" -> "Seerah Quiz"
      [] quiz_id = "history" -> "Islamic History"
      [] quiz_id = "pillars" -> "Pillars of Islam"
      [] quiz_id = "fiqh" -> "Fiqh Basics"
      [] quiz_id = "prophets" -> "Prophets in Islam"

\* the literal lists: quran_questions and seerah_questions of
\* generate_quiz_csv_questions, pillars_questions of generate_complete_quiz_csv
InlineList(name) ==
    LET answers ==
            CASE name = "quran" ->
                    <<0,1,1,2,1,1,1,2,2,0,1,0,2,2,1,1,1,0,1,0,1,0,3,0,1,1,0,0,1,1,1,1,1,0,1,0,
                      1,0,0,0,3,0,3,0,1,0,1,3,3,0,3,0,3>>
              [] name = "seerah" ->
                    <<0,0,1,1,0,2,1,1,0,1,1,1,2,0,2,2,1,2,0,1,1,3,3,0,0,0,0,2,2,0,0,0,2,1,0,0,
                      1,3,2,0,2,1,2,1,3,1,0,0>>
              [] name = "pillars" ->
                    <<0,1,2,1,2,0,2,1,2,0,0,0,0,1,3,1,1,3,0,0,1,3,0,1,2,2,3,2,2,3,3,2,1,3,2,0,
                      1,3,0,3,0,3,0,3,1,3,3,3,0,3,3>>
        quoted == ListV(<<Str(<<"w">>), Str(<<"x">>), Str(<<"\"", "y", "\"">>), Str(<<"z">>)>>)
    IN  [k \in 1..Len(answers) |->
            [BankQuestion(k, answers[k]) EXCEPT
                !["options"] = IF name = "quran" /\ k = 18 THEN quoted ELSE @]]

\* lines 377-390 (generate_complete_quiz_csv) and 666-679
\* (generate_quiz_csv_questions): the row of the question q at index idx
FormatRow(q, idx, quiz_id, uuid) ==
    [x \in Header |->
        CASE x = "id" -> Uuid(uuid)
          [] x = "quiz_id" -> CatKey(quiz_id)
          [] x = "question_id" -> Str(<<"q">> \o Pad3(idx + 1))
          [] x = "question" -> q["question"]
          [] x = "options" -> Str(JsonDumps(q["options"]))
          [] x = "correct_answer" -> Str(PyStr(q["correct_answer"]))
          [] x = "explanation" -> q["explanation"]
          [] x = "order_index" -> Str(StrOfNat(idx + 1))
          [] x = "created_at" -> created_at]

\* generate_quiz_csv_questions, lines 650-664: the questions of a category
QuizCsvQuestions(quiz_id) ==
    IF quiz_id \in {"quran", "seerah"} THEN InlineList(quiz_id)
    ELSE [k \in 1..Target |->
             [x \in {"question", "options", "correct_answer", "explanation"} |->
                 CASE x = "question" ->
                         Str(<<"Sample question ">> \o StrOfNat(k) \o <<" for ", QuizTitle(quiz_id)>>)
                   [] x = "options" -> DefaultOptions
                   [] x = "correct_answer" -> IntV((k - 1) % 4)
                   [] x = "explanation" ->
                         Str(<<"Sample explanation for question ">> \o StrOfNat(k))]]

\* generate_quiz_csv_questions.generate_questions()
generate_questions ==
    LET rows(c) == [k \in 1..Len(QuizCsvQuestions(categories[c])) |->
                       FormatRow(QuizCsvQuestions(categories[c])[k], k - 1, categories[c], 0)]
    IN  rows(1) \o rows(2) \o rows(3) \o rows(4) \o rows(5) \o rows(6)

\* generate_complete_quiz_csv, lines 32-36 and 356-363: all_categories.get(quiz_id, []),
\* quran and seerah being rows of generate_questions()
all_categories(quiz_id) ==
    LET existing == generate_questions
        of(c) == SelectSeq(existing, LAMBDA q : q["quiz_id"] = CatKey(c))
    IN  CASE quiz_id \in {"quran", "seerah"} ->
                IF Len(of(quiz_id)) >= Target THEN Take(of(quiz_id), Target) ELSE of(quiz_id)
          [] quiz_id = "pillars" -> InlineList("pillars")
          [] OTHER -> <<>>

\* lines 369-375: `while len(questions) < 50: questions.append(...)`
RECURSIVE Padded(_, _)
Padded(questions, quiz_id) ==
    IF Len(questions) >= Target THEN questions
    ELSE Padded(Append(questions,
                       [x \in {"question", "options", "correct_answer", "explanation"} |->
                           CASE x = "question" ->
                                   Str(<<"Question ">> \o StrOfNat(Len(questions) + 1)
                                       \o <<" for ", QuizTitle(quiz_id), " - Please add content">>)
                             [] x = "options" -> DefaultOptions
                             [] x = "correct_answer" -> IntV(Len(questions) % 4)
                             [] x = "explanation" ->
                                   Str(<<"Explanation for question ">>
                                       \o StrOfNat(Len(questions) + 1))]),
                quiz_id)

\* Selected without the cut to the first 50 questions
Selected_uncut(name, quiz_id) ==
    IF name = "generate_quiz_csv_questions" THEN QuizCsvQuestions(quiz_id)
    ELSE Padded(all_categories(quiz_id), quiz_id)

\* the questions the row loop of a category runs over: `questions` (line 666 of
\* generate_quiz_csv_questions), `questions[:50]` (line 377 of
\* generate_complete_quiz_csv)
Selected(name, quiz_id) ==
    IF name = "generate_quiz_csv_questions" THEN QuizCsvQuestions(quiz_id)
    ELSE Take(Padded(all_categories(quiz_id), quiz_id), Target)

GeneratorInit ==
    /\ script \in {"generate_quiz_csv_questions", "generate_complete_quiz_csv"}
    /\ pc = "category"
    /\ input = <<>>
    /\ real_questions_by_category = EmptyDict
    /\ sample_count = 0
    /\ cat_idx = 1
    /\ questions_to_use = <<>>
    /\ all_questions = <<>>
    /\ uuid_next = 0
    /\ outfile = NoFile
    /\ stdout = <<>>
    /\ arg = NoneV
    /\ result = NoneV
    /\ row_idx = 1
    /\ sql_rows = <<>>
    /\ exit_code = NoneV
    /\ handles = NoHandles

\* `for quiz in QUIZ_CATEGORIES:` up to the row loop: the questions of the
\* category at cat_idx
GeneratorCategory ==
    /\ script \in {"generate_quiz_csv_questions", "generate_complete_quiz_csv"}
    /\ pc = "category" /\ cat_idx <= Len(categories)
    /\ questions_to_use' = Selected(script, categories[cat_idx])
    /\ row_idx' = 1
    /\ pc' = "rows"
    /\ UNCHANGED <<script, input, real_questions_by_category, sample_count, cat_idx,
                   all_questions, uuid_next, outfile, stdout, arg, result, sql_rows, exit_code,
                   handles>>

\* one pass of `for idx, q in enumerate(...)`: a row is appended; after the last
\* question the category loop goes on
GeneratorRow ==
    /\ script \in {"generate_quiz_csv_questions", "generate_complete_quiz_csv"}
    /\ pc = "rows"
    /\ IF row_idx <= Len(questions_to_use)
       THEN /\ all_questions' = Append(all_questions,
                                       FormatRow(questions_to_use[row_idx], row_idx - 1,
                                                 categories[cat_idx], uuid_next + 1))
            /\ uuid_next' = uuid_next + 1
            /\ row_idx' = row_idx + 1
            /\ UNCHANGED <<pc, cat_idx>>
       ELSE /\ cat_idx' = cat_idx + 1
            /\ pc' = "category"
            /\ UNCHANGED <<all_questions, uuid_next, row_idx>>
    /\ UNCHANGED <<script, input, real_questions_by_category, sample_count, questions_to_use,
                   outfile, stdout, arg, result, sql_rows, exit_code, handles>>

\* main of either script: the returned rows are written and the summary printed
GeneratorMain ==
    /\ script \in {"generate_quiz_csv_questions", "generate_complete_quiz_csv"}
    /\ pc = "category" /\ cat_idx > Len(categories)
    /\ outfile' = CsvFile(all_questions)
    /\ stdout' = stdout \o
           << <<"Generated ">> \o StrOfNat(Len(all_questions)) \o <<" questions">>,
              <<"Questions per category: 50">>,
              <<"Categories: ">> \o StrOfNat(Len(categories)) >>
    /\ pc' = "done"
    /\ exit_code' = IntV(0)
    /\ UNCHANGED <<script, input, real_questions_by_category, sample_count, cat_idx,
                   questions_to_use, all_questions, uuid_next, arg, result, row_idx, sql_rows,
                   handles>>

GeneratorNext == GeneratorCategory \/ GeneratorRow \/ GeneratorMain

SpecGenerators == GeneratorInit /\ [][GeneratorNext]_vars

\* the rows of all_questions with the quiz_id of the category, in emission order
RowsOf(category) == SelectSeq(all_questions, LAMBDA q : q["quiz_id"] = CatKey(category))

\* C23: generate_quiz_csv_questions.generate_questions returns exactly 50 rows for
\* each of the six categories, 300 in all, as the summary of main says.
C23_FiftyPerCategory ==
    (script = "generate_quiz_csv_questions" /\ pc = "done") =>
        /\ Len(all_questions) = 300
        /\ \A c \in 1..Len(categories) : Len(RowsOf(categories[c])) = 50

\* C24: generate_complete_quiz_csv.generate_all_questions returns exactly 50 rows
\* for each category, a longer source list cut and a shorter one padded, with
\* question_id q001..q050 and order_index 1..50 in emission order.
C24_CompleteFifty ==
    (script = "generate_complete_quiz_csv" /\ pc \in {"category", "done"}) =>
        /\ Len(all_questions) = 50 * (cat_idx - 1)
        /\ \A j \in 1..Len(all_questions) :
               LET k == ((j - 1) % 50) + 1
               IN  /\ all_questions[j]["quiz_id"] = CatKey(categories[((j - 1) \div 50) + 1])
                   /\ all_questions[j]["question_id"] = Str(<<"q">> \o Pad3(k))
                   /\ all_questions[j]["order_index"] = Str(StrOfNat(k))

\* the run is over with 300 rows: the 53 quran questions were cut to 50, the 48
\* seerah questions padded with two placeholders, the 51 pillars questions cut,
\* the empty fiqh list padded with 50
C24_Witness ==
    /\ script = "generate_complete_quiz_csv" /\ pc = "done"
    /\ Len(all_questions) = 300
    /\ all_questions[50]["question"] = InlineList("quran")[50]["question"]
    /\ all_questions[98]["question"] = InlineList("seerah")[48]["question"]
    /\ all_questions[100]["question"] =
           Str(<<"Question ", "5", "0", " for ", "Seerah Quiz", " - Please add content">>)
    /\ all_questions[200]["question"] = InlineList("pillars")[50]["question"]
    /\ all_questions[201]["question"] =
           Str(<<"Question ", "1", " for ", "Fiqh Basics", " - Please add content">>)

\* the option list of the question behind the k-th row of a category of
\* generate_complete_quiz_csv
UnderlyingOptions(category, k) ==
    IF category \in {"quran", "seerah", "pillars"} /\ k <= Len(InlineList(category))
    THEN InlineList(category)[k]["options"]
    ELSE DefaultOptions

\* C25: the options field of every row generate_all_questions returns decodes,
\* in one json.loads, to the list of the 4 option strings of its question.
C25_OptionsDecodeOnce ==
    script = "generate_complete_quiz_csv" =>
        \A j \in 1..Len(all_questions) :
            LET decoded == JsonLoads(all_questions[j]["options"].v)
            IN  /\ decoded.ok
                /\ IsList(decoded.val) /\ Len(decoded.val.v) = 4
                /\ decoded.val = UnderlyingOptions(categories[((j - 1) \div 50) + 1],
                                                   ((j - 1) % 50) + 1)

----------------------------------------------------------------------------
(* main of generate_lectures_recitations_import: what the migration file   *)
(* holds and what is left open when the process ends                       *)

LecturesRun == script = "generate_lectures_recitations_import"

\* the lines of the migration file
FileLines == IF outfile = NoFile THEN <<>> ELSE outfile.rows

\* C22: on every successful run the migration file ends with the verification
\* block: the SELECT COUNT(*) statements are in the file, after both INSERTs.
C22_VerificationInFile ==
    (LecturesRun /\ pc = "done") =>
        \E i, j \in 1..Len(FileLines) :
            /\ i < j
            /\ FileLines[i] = <<"SELECT COUNT(*) as total_lectures FROM public.lectures;">>
            /\ FileLines[j] = <<"SELECT COUNT(*) as total_recitations FROM public.recitations;">>
            /\ \A k \in 1..Len(FileLines) :
                   FileLines[k] = <<"ON CONFLICT (id) DO NOTHING;">> => k < i

\* text between single quotes in which every single quote is followed or
\* preceded by its double
RECURSIVE PairedQuotes(_)
PairedQuotes(s) ==
    IF s = <<>> THEN TRUE
    ELSE IF Head(s) # "'" THEN PairedQuotes(Tail(s))
    ELSE Len(s) >= 2 /\ s[2] = "'" /\ PairedQuotes(Tail(Tail(s)))

QuotedLiteral(text) ==
    /\ Len(text) >= 2
    /\ text[1] = "'" /\ text[Len(text)] = "'"
    /\ PairedQuotes(SubSeq(text, 2, Len(text) - 1))

\* C26: every value of a tuple the two importers emit is NULL, NOW(), a non-empty
\* string of decimal digits, or a single-quoted literal with every quote doubled.
C26_TupleValuesWellFormed ==
    LecturesRun =>
        \A k \in 1..Len(sql_rows) : \A x \in DOMAIN sql_rows[k].values :
            LET v == sql_rows[k].values[x]
            IN  \/ v = <<"N", "U", "L", "L">>
                \/ v = <<"N", "O", "W", "(", ")">>
                \/ v # <<>> /\ AllDecimal(v)
                \/ QuotedLiteral(v)

\* C27: on every way out of main the migration file and every input file that
\* was opened are closed and sys.stdout is the console again.
C27_ClosedAndRestored ==
    (LecturesRun /\ pc \in {"exited", "done"}) =>
        /\ handles.output = "closed"
        /\ handles.lectures # "open" /\ handles.recitations # "open"
        /\ handles.sys_stdout = "console"

\* a run ended by sys.exit(1) in an importer after the lectures CSV was opened,
\* the migration file open and in the place of sys.stdout until then
C27_Witness ==
    /\ LecturesRun /\ pc = "exited" /\ exit_code = IntV(1)
    /\ handles.lectures = "closed"
    /\ handles.output = "closed" /\ handles.sys_stdout = "console"
    /\ outfile.written

\* C29: after a failed run the migration file has no incomplete INSERT: every
\* 'INSERT INTO' header is followed by its 'ON CONFLICT (id) DO NOTHING;'
\* before the next header or the end of the file.
C29_NoIncompleteInsert ==
    (LecturesRun /\ pc = "exited") =>
        \A i \in 1..Len(FileLines) :
            FileLines[i][1] = "INSERT INTO public." =>
                \E j \in (i + 1)..Len(FileLines) :
                    /\ FileLines[j] = <<"ON CONFLICT (id) DO NOTHING;">>
                    /\ \A k \in (i + 1)..(j - 1) : FileLines[k][1] # "INSERT INTO public."

----------------------------------------------------------------------------
(* parse_duration: one duration written in several ways *)

\* the input is of one of the three recognised forms, its numbers in decimal
\* digits: MM:SS or HH:MM:SS, '<H>h <M>m' / '<H>h' / '<M>m', or a bare number
Recognised(s) ==
    \/ ColonShape(s) /\ \A i \in 1..Len(Split(s, ":")) : AllDecimal(Split(s, ":")[i])
    \/ ~HasChar(s, ":") /\ UnitsShape(s)
    \/ AllDecimal(s)

\* the number of seconds a recognised input denotes, a bare number being minutes
Denoted(s) ==
    IF HasChar(s, ":")
    THEN LET parts == Split(s, ":")
         IN  IF Len(parts) = 2
             THEN IntOfDigits(parts[1]) * 60 + IntOfDigits(parts[2])
             ELSE IntOfDigits(parts[1]) * 3600 + IntOfDigits(parts[2]) * 60
                  + IntOfDigits(parts[3])
    ELSE IF AllDecimal(s) THEN 60 * IntOfDigits(s)
    ELSE UnitsSeconds(s)

\* C28: the output of parse_duration is canonical: two recognised inputs that
\* denote the same duration ('90', '1h 30m', '90:00', '1:30:00') give the
\* identical output string.
C28_CanonicalOutput ==
    (DurationDone /\ IsStr(arg) /\ Recognised(arg.v)) =>
        \A other \in DurationInputs :
            (IsStr(other) /\ Recognised(other.v) /\ Denoted(other.v) = Denoted(arg.v))
                => parse_duration(other) = result

====
